---- MODULE Spec2Model ----
(***************************************************************************)
(* Ingestion core of the High-Scale Energy Ingestion Engine: the two       *)
(* BullMQ queues (meter-ingestion, vehicle-ingestion), the queue           *)
(* processors' dual write (current-state upsert + history insert), the     *)
(* direct (synchronous) dual write of IngestionService, the cache          *)
(* invalidation that follows a successful dual write, and the read paths   *)
(* (current-state lookups and the 24h performance query) with their        *)
(* read-through cache.                                                     *)
(*                                                                         *)
(* Time is in milliseconds.  Storage and cache faults are injected         *)
(* nondeterministically; each specification bounds how many jobs, calls    *)
(* and faults one behaviour has.                                           *)
(***************************************************************************)
EXTENDS Integers, Sequences, FiniteSets, TLC

VARIABLES USE_QUEUE, USE_CACHE, now, queue, wait, workers, inflight, calls,
          current, history, cache, faults, upserted, lastUpsert, reads

vars == <<USE_QUEUE, USE_CACHE, now, queue, wait, workers, inflight, calls,
          current, history, cache, faults, upserted, lastUpsert, reads>>

(* ------------------------------ bounds --------------------------------- *)
\* Spec: jobs and direct calls accepted, faults injected, writes left in
\* flight by a rejected attempt
MaxJobs == 2
MaxCalls == 2
MaxFaults == 1
MaxDetached == 1
\* SpecRetry: jobs accepted, faults injected
MaxRetryJobs == 2
MaxRetryFaults == 3
\* SpecCache: records ingested, reads made, faults injected
MaxCacheIngests == 3
MaxReads == 2
MaxCacheFaults == 1
\* SpecFlag: records submitted
MaxFlagIngests == 2
\* SpecPerf: records ingested, performance reads made, query faults injected
MaxPerfIngests == 3
MaxPerfReads == 1
MaxPerfFaults == 1
\* SpecFan: records ingested, performance reads made
MaxFanIngests == 4
MaxFanReads == 1
\* SpecBacklog: jobs accepted by one queue
MaxBacklogJobs == 2
\* SpecStats: jobs accepted, faults injected, statistics reads made
MaxStatsJobs == 2
MaxStatsFaults == 3
MaxStatsReads == 1
\* SpecScan: records ingested, history scans made
MaxScanIngests == 2
MaxScanReads == 1
\* SpecIngress: requests posted
MaxPosts == 2
\* SpecTrim: jobs accepted beside the ones already completed
MaxTrimJobs == 2
MaxFrameIngests == 3
MaxFrameReads == 2

(* ------------------------- program constants --------------------------- *)
Concurrency == 10

Classes == {"meter", "vehicle"}
Devices == {"D1", "D2"}

\* no age / count limit on a finished set
KeepForever == 0 - 1

DefaultJobOptions ==
  [attempts |-> 3, backoffType |-> "exponential", backoffDelay |-> 1000,
   removeOnCompleteAge |-> 3600, removeOnCompleteCount |-> 1000,
   removeOnFailAge |-> 86400, removeOnFailCount |-> KeepForever]

\* the options ingestMeter / ingestVehicle pass to queue.add():
\* removeOnFail: false keeps every failed job
AddOptions ==
  [priority |-> 1, removeOnFailAge |-> KeepForever, removeOnFailCount |-> KeepForever]

\* a plausible slip: removeOnFail: true, which keeps no failed job
JobOptionsRemoveOnFail ==
  [priority |-> 1, removeOnFailAge |-> KeepForever, removeOnFailCount |-> 0]
    @@ DefaultJobOptions

\* Queue.add merges the per-job options over defaultJobOptions
JobOptions == AddOptions @@ DefaultJobOptions

(* ------------------------------ inputs --------------------------------- *)
MeterReadings ==
  { [kwhConsumedAc |-> 10, voltage |-> 230, timestamp |-> 1],
    [kwhConsumedAc |-> 20, voltage |-> 240, timestamp |-> 2] }

VehicleReadings ==
  { [soc |-> 80, kwhDeliveredDc |-> 9, batteryTemp |-> 28, timestamp |-> 1],
    [soc |-> 90, kwhDeliveredDc |-> 18, batteryTemp |-> 35, timestamp |-> 2] }

MeterTelemetryDto == { [meterId |-> d] @@ r : d \in Devices, r \in MeterReadings }

VehicleTelemetryDto == { [vehicleId |-> d] @@ r : d \in Devices, r \in VehicleReadings }

Dto(cls) == IF cls = "meter" THEN MeterTelemetryDto ELSE VehicleTelemetryDto

KeyColumn(cls) == IF cls = "meter" THEN "meterId" ELSE "vehicleId"

DeviceId(cls, data) == data[KeyColumn(cls)]

\* the telemetry columns of a current-state row (all but key and updated_at)
TelemetryColumns(cls) ==
  IF cls = "meter" THEN {"kwhConsumedAc", "voltage", "timestamp"}
  ELSE {"soc", "kwhDeliveredDc", "batteryTemp", "timestamp"}

\* the time value of new Date(s) for a string s the engine cannot parse
\* (NaN; JSON.stringify writes such a Date as null): no instant of a reading
InvalidDate == 0 - 2147483647

(* ------------------------------ storage -------------------------------- *)
\* timestamp TIMESTAMPTZ NOT NULL: only a row with an instant is stored
Storable(data) == data.timestamp # InvalidDate

\* a plausible slip: one telemetry column missing from the orUpdate list
ProcessorUpdateColumnsShort(cls) ==
  IF cls = "meter" THEN {"kwhConsumedAc", "timestamp"}
  ELSE {"soc", "kwhDeliveredDc", "timestamp"}

\* orUpdate([...]) of the queue processors: updated_at is not listed
ProcessorUpdateColumns(cls) ==
  IF cls = "meter" THEN {"kwhConsumedAc", "voltage", "timestamp"}
  ELSE {"soc", "kwhDeliveredDc", "batteryTemp", "timestamp"}

\* orUpdate([...]) of ingestMeterDirect / ingestVehicleDirect
DirectUpdateColumns(cls) ==
  IF cls = "meter" THEN {"kwhConsumedAc", "voltage", "timestamp", "updatedAt"}
  ELSE {"soc", "kwhDeliveredDc", "batteryTemp", "timestamp", "updatedAt"}

\* a plausible slip: a plain INSERT, no ON CONFLICT clause
UpsertNoConflict(table, key, values, cols, t) ==
  table \cup {values @@ [updatedAt |-> t]}

\* a plausible slip: a guard that keeps the row when its reading is newer
UpsertNewerWins(table, key, values, cols, t) ==
  LET excluded == values @@ [updatedAt |-> t]
      conflict == {r \in table : r[key] = values[key]}
  IN  IF conflict = {} THEN table \cup {excluded}
      ELSE (table \ conflict) \cup
           { IF r.timestamp > values.timestamp THEN r
             ELSE [c \in DOMAIN r |-> IF c \in cols THEN excluded[c] ELSE r[c]] : r \in conflict }

\* INSERT ... ON CONFLICT (key) DO UPDATE SET c = EXCLUDED.c for c in cols;
\* updated_at of the proposed row is the column default NOW()
Upsert(table, key, values, cols, t) ==
  LET excluded == values @@ [updatedAt |-> t]
      conflict == {r \in table : r[key] = values[key]}
  IN  IF conflict = {} THEN table \cup {excluded}
      ELSE (table \ conflict) \cup
           { [c \in DOMAIN r |-> IF c \in cols THEN excluded[c] ELSE r[c]] : r \in conflict }

\* a plausible slip: the history written like the current state, a device's
\* row is overwritten in place
InsertOverwrite(log, key, values, t) ==
  LET same == {i \in 1..Len(log) : log[i][key] = values[key]}
  IN  IF same = {} THEN Append(log, [id |-> Len(log) + 1] @@ values @@ [createdAt |-> t])
      ELSE [i \in 1..Len(log) |->
              IF i \in same THEN [id |-> log[i].id] @@ values @@ [createdAt |-> t] ELSE log[i]]

\* INSERT INTO <class>_history: id from the sequence, created_at DEFAULT NOW()
Insert(log, key, values, t) ==
  Append(log, [id |-> Len(log) + 1] @@ values @@ [createdAt |-> t])

(* ------------------------------- cache --------------------------------- *)
\* a key with no entry; an entry is held as a one-element sequence
Miss == <<>>

CurrentCacheKey(cls, d) == <<IF cls = "meter" THEN "meter:current" ELSE "vehicle:current", d>>

PerformanceCacheKey(d) == <<"performance", d>>

CacheKeys == {CurrentCacheKey(cls, d) : cls \in Classes, d \in Devices}
             \cup {PerformanceCacheKey(d) : d \in Devices}

\* a plausible slip: the whole cache is cleared instead of the device's keys
DelAll(c, keys) == [k \in CacheKeys |-> IF keys = {} THEN c[k] ELSE Miss]

\* the keys a successful dual write deletes
InvalidationKeys(cls, d) ==
  IF cls = "meter" THEN {CurrentCacheKey("meter", d)}
  ELSE {CurrentCacheKey("vehicle", d), PerformanceCacheKey(d)}

Del(c, keys) == [k \in CacheKeys |-> IF k \in keys THEN Miss ELSE c[k]]

(* ------------------------------- queue --------------------------------- *)
\* a plausible slip: backoff type 'fixed', the same delay before every retry
BackoffDelayFixed(attemptsMade) == JobOptions.backoffDelay

\* BullMQ built-in 'exponential' strategy: 2^(attemptsMade - 1) * delay
BackoffDelay(attemptsMade) == 2^(attemptsMade - 1) * JobOptions.backoffDelay

JobIds(cls) == 1..Len(queue[cls])

JobsIn(cls, st) == {j \in JobIds(cls) : queue[cls][j].state = st}

\* a write is attached while the attempt that issued it is still awaiting it
Attached(w) ==
  /\ queue[w.cls][w.job].state = "active"
  /\ queue[w.cls][w.job].attemptsMade = w.att

Detached == {w \in inflight : ~Attached(w)}

\* the writes in flight that no attempt awaits once job j of cls is failed
DetachedAfterFail(cls, j) == Detached \cup {w \in inflight : w.cls = cls /\ w.job = j}

\* a plausible slip: one pool of worker slots shared by both queues
FreeSlotsShared(cls) ==
  {s \in 1..Concurrency : \A c \in Classes : workers[c][s] = 0}

\* each queue has its own Worker with its own 10 slots
FreeSlots(cls) == {s \in 1..Concurrency : workers[cls][s] = 0}

\* a plausible slip: only the age limit is applied, the count is ignored
RetainedByAge(st, age, count, q) ==
  {j \in 1..Len(q) : /\ q[j].state = st
                      /\ (age = KeepForever \/ q[j].finishedOn > now - age * 1000)}

\* keepJobs of moveToFinished: drop finished jobs older than age seconds,
\* then all but the newest count (the finished set is ordered by finishedOn,
\* the later job first among equals)
Retained(st, age, count, q) ==
  LET inSet == {j \in 1..Len(q) : q[j].state = st}
      young == IF age = KeepForever THEN inSet
               ELSE {j \in inSet : q[j].finishedOn > now - age * 1000}
      isYoung(j) == j \in young
      newerFirst(j, k) == \/ q[j].finishedOn > q[k].finishedOn
                          \/ (q[j].finishedOn = q[k].finishedOn /\ j > k)
      newest == SortSeq(SelectSeq([j \in 1..Len(q) |-> j], isYoung), newerFirst)
  IN  IF count = KeepForever \/ Len(newest) <= count THEN young
      ELSE {newest[i] : i \in 1..count}

Trim(st, age, count, q) ==
  LET kept == Retained(st, age, count, q)
  IN  [j \in 1..Len(q) |->
         IF q[j].state = st /\ j \notin kept
         THEN [q[j] EXCEPT !.state = "removed"] ELSE q[j]]

(* ------------------------------- Init ---------------------------------- *)
Init ==
  /\ USE_QUEUE \in BOOLEAN
  /\ USE_CACHE \in BOOLEAN
  /\ now = 0
  /\ queue = [cls \in Classes |-> <<>>]
  /\ wait = [cls \in Classes |-> <<>>]
  /\ workers = [cls \in Classes |-> [s \in 1..Concurrency |-> 0]]
  /\ inflight = {}
  /\ calls = <<>>
  /\ current = [cls \in Classes |-> {}]
  /\ history = [cls \in Classes |-> <<>>]
  /\ cache = [k \in CacheKeys |-> Miss]
  /\ faults = 0
  /\ upserted = [cls \in Classes |-> {}]
  /\ lastUpsert = [cls \in Classes |-> [d \in Devices |-> <<>>]]
  /\ reads = <<>>

(* --------------------------- ingress boundary -------------------------- *)
NewJob(dto) ==
  [data |-> dto, state |-> "waiting", attemptsMade |-> 0, up |-> "none",
   hi |-> "none", pc |-> "idle", backoffs |-> <<>>, readyAt |-> 0,
   finishedOn |-> 0]

\* a plausible slip: the acknowledgement names the number of jobs queued
\* before this one
QueuedResponseOffByOne(cls, job) ==
  [success |-> TRUE, device |-> DeviceId(cls, job.data),
   timestamp |-> job.data.timestamp, mode |-> "queued", jobId |-> job.id - 1]

\* what ingestMeter / ingestVehicle return once queue.add() has resolved
\* with the job
QueuedResponse(cls, job) ==
  [success |-> TRUE, device |-> DeviceId(cls, job.data),
   timestamp |-> job.data.timestamp, mode |-> "queued", jobId |-> job.id]

\* ingestMeter / ingestVehicle: queue.add() when USE_QUEUE (the queue gives
\* the job the next id of its counter), else the direct dual write is
\* started
Ingest(cls, dto) ==
  IF USE_QUEUE
  THEN /\ queue' = [queue EXCEPT ![cls] =
               Append(@, [id |-> Len(queue[cls]) + 1] @@ NewJob(dto))]
       /\ wait' = [wait EXCEPT ![cls] = Append(@, Len(queue[cls]) + 1)]
       /\ UNCHANGED <<reads, USE_QUEUE, USE_CACHE, now, workers, inflight, calls,
                      current, history, cache, faults, upserted, lastUpsert>>
  ELSE /\ calls' = Append(calls, [cls |-> cls, data |-> dto, pc |-> "upsert",
                                  result |-> "pending"])
       /\ UNCHANGED <<reads, USE_QUEUE, USE_CACHE, now, queue, wait, workers,
                      inflight, current, history, cache, faults, upserted,
                      lastUpsert>>

(* ----------------------------- validation ------------------------------ *)
\* a request body holds each property as a one-element sequence, or not at
\* all
Missing == <<>>

\* timestamp strings a client may send: two instants in the extended
\* format, an ISO 8601 week date, and a word
TimestampStrings ==
  {"2026-02-08T00:00:00.001Z", "2026-02-08T00:00:00.002Z", "2026-W06-1", "yesterday"}

\* validator.js isISO8601 (non-strict): calendar, week and ordinal dates match
IsISO8601(str) ==
  str \in {"2026-02-08T00:00:00.001Z", "2026-02-08T00:00:00.002Z", "2026-W06-1"}

\* new Date(str): only the date-time string format is parsed
NewDate(str) ==
  CASE str = "2026-02-08T00:00:00.001Z" -> 1
    [] str = "2026-02-08T00:00:00.002Z" -> 2
    [] OTHER -> InvalidDate

MeterBodies ==
  LET base == [meterId |-> <<"D1">>, kwhConsumedAc |-> <<10>>, voltage |-> <<230>>,
               timestamp |-> <<"2026-02-08T00:00:00.001Z">>]
  IN  {[base EXCEPT !.meterId = x] : x \in {Missing, <<"">>, <<"D1">>}}
      \cup {[base EXCEPT !.kwhConsumedAc = x] : x \in {Missing, <<0 - 1>>, <<0>>}}
      \cup {[base EXCEPT !.voltage = x] : x \in {Missing, <<0 - 1>>, <<0>>, <<500>>, <<501>>}}
      \cup {[base EXCEPT !.timestamp = x] : x \in {Missing} \cup {<<t>> : t \in TimestampStrings}}

VehicleBodies ==
  LET base == [vehicleId |-> <<"D1">>, soc |-> <<80>>, kwhDeliveredDc |-> <<9>>,
               batteryTemp |-> <<28>>, timestamp |-> <<"2026-02-08T00:00:00.001Z">>]
  IN  {[base EXCEPT !.vehicleId = x] : x \in {Missing, <<"">>, <<"D1">>}}
      \cup {[base EXCEPT !.soc = x] : x \in {Missing, <<0 - 1>>, <<0>>, <<100>>, <<101>>}}
      \cup {[base EXCEPT !.kwhDeliveredDc = x] : x \in {Missing, <<0 - 1>>, <<0>>}}
      \cup {[base EXCEPT !.batteryTemp = x] : x \in {<<0 - 21>>, <<0 - 20>>, <<80>>, <<81>>}}
      \cup {[base EXCEPT !.timestamp = x] : x \in {Missing} \cup {<<t>> : t \in TimestampStrings}}

Bodies(cls) == IF cls = "meter" THEN MeterBodies ELSE VehicleBodies

\* @IsString() @IsNotEmpty()
IsNotEmpty(x) == x # Missing /\ x[1] # ""

\* @IsNumber() @Min(min)
IsNumberMin(x, min) == x # Missing /\ x[1] >= min

\* @IsNumber() @Min(min) @Max(max)
IsNumberMinMax(x, min, max) == x # Missing /\ x[1] >= min /\ x[1] <= max

\* the decorators of MeterTelemetryDto / VehicleTelemetryDto
Validate(cls, body) ==
  IF cls = "meter"
  THEN /\ IsNotEmpty(body.meterId)
       /\ IsNumberMin(body.kwhConsumedAc, 0)
       /\ IsNumberMinMax(body.voltage, 0, 500)
       /\ body.timestamp # Missing /\ IsISO8601(body.timestamp[1])
  ELSE /\ IsNotEmpty(body.vehicleId)
       /\ IsNumberMinMax(body.soc, 0, 100)
       /\ IsNumberMin(body.kwhDeliveredDc, 0)
       /\ IsNumberMinMax(body.batteryTemp, 0 - 20, 80)
       /\ body.timestamp # Missing /\ IsISO8601(body.timestamp[1])

\* the record ingestMeter / ingestVehicle work on: the dto's properties,
\* the timestamp as new Date(dto.timestamp)
Telemetered(cls, body) ==
  [c \in DOMAIN body |-> IF c = "timestamp" THEN NewDate(body[c][1]) ELSE body[c][1]]

\* the ValidationPipe answers a body that fails validation with 400
BadRequest == "BadRequest"

\* POST /v1/ingest/meter, /v1/ingest/vehicle: the global ValidationPipe,
\* then the controller hands the dto to the service
Post(cls, body) ==
  IF Validate(cls, body)
  THEN Ingest(cls, Telemetered(cls, body))
  ELSE /\ calls' = Append(calls, [cls |-> cls, body |-> body, pc |-> "done",
                                  result |-> BadRequest])
       /\ UNCHANGED <<reads, USE_QUEUE, USE_CACHE, now, queue, wait, workers,
                      inflight, current, history, cache, faults, upserted,
                      lastUpsert>>

(* ---------------------------- queue workers ---------------------------- *)
\* a plausible slip: the job is handed to a worker but left in the wait list
FetchLeavesWaiting(w) == w

\* moveToActive removes the fetched job from the wait list
FetchRemoves(w) == Tail(w)

\* Worker fetches the next job (all jobs have priority 1: FIFO) and calls
\* process(), which issues both writes of Promise.all at once
Dequeue(cls) ==
  /\ wait[cls] # <<>>
  /\ FreeSlots(cls) # {}
  /\ LET j == Head(wait[cls])
         s == CHOOSE x \in FreeSlots(cls) : \A y \in FreeSlots(cls) : x <= y
         att == queue[cls][j].attemptsMade
     IN  /\ wait' = [wait EXCEPT ![cls] = FetchRemoves(@)]
         /\ workers' = [workers EXCEPT ![cls][s] = j]
         /\ queue' = [queue EXCEPT ![cls][j].state = "active",
                                   ![cls][j].up = "pending",
                                   ![cls][j].hi = "pending",
                                   ![cls][j].pc = "write"]
         /\ inflight' = inflight \cup
               { [cls |-> cls, job |-> j, att |-> att, kind |-> k] : k \in {"upsert", "insert"} }
  /\ UNCHANGED <<reads, USE_QUEUE, USE_CACHE, now, calls, current, history, cache,
                 faults, upserted, lastUpsert>>

\* the job's view of a write that settled: only the awaiting attempt sees it
Settle(w, field, outcome) ==
  IF Attached(w) THEN [queue EXCEPT ![w.cls][w.job][field] = outcome] ELSE queue

\* the current-state upsert of process() commits
UpsertCommit(w) ==
  /\ w \in inflight /\ w.kind = "upsert"
  /\ Storable(queue[w.cls][w.job].data)
  /\ LET data == queue[w.cls][w.job].data
         d == DeviceId(w.cls, data)
     IN  /\ current' = [current EXCEPT ![w.cls] =
               Upsert(@, KeyColumn(w.cls), data, ProcessorUpdateColumns(w.cls), now)]
         /\ upserted' = [upserted EXCEPT ![w.cls] = @ \cup {d}]
         /\ lastUpsert' = [lastUpsert EXCEPT ![w.cls][d] = <<data>>]
  /\ queue' = Settle(w, "up", "ok")
  /\ inflight' = inflight \ {w}
  /\ UNCHANGED <<reads, USE_QUEUE, USE_CACHE, now, wait, workers, calls, history,
                 cache, faults>>

\* the history insert of process() commits
InsertCommit(w) ==
  /\ w \in inflight /\ w.kind = "insert"
  /\ Storable(queue[w.cls][w.job].data)
  /\ history' = [history EXCEPT ![w.cls] =
        Insert(@, KeyColumn(w.cls), queue[w.cls][w.job].data, now)]
  /\ queue' = Settle(w, "hi", "ok")
  /\ inflight' = inflight \ {w}
  /\ UNCHANGED <<reads, USE_QUEUE, USE_CACHE, now, wait, workers, calls, current,
                 cache, faults, upserted, lastUpsert>>

\* a write without an instant is rejected by the database, nothing is stored
WriteReject(w) ==
  /\ w \in inflight
  /\ ~Storable(queue[w.cls][w.job].data)
  /\ queue' = Settle(w, IF w.kind = "upsert" THEN "up" ELSE "hi", "fail")
  /\ inflight' = inflight \ {w}
  /\ UNCHANGED <<reads, USE_QUEUE, USE_CACHE, now, wait, workers, calls, current,
                 history, cache, faults, upserted, lastUpsert>>

\* a storage fault: the write is rejected and nothing is stored
WriteFail(w) ==
  /\ w \in inflight
  /\ faults' = faults + 1
  /\ queue' = Settle(w, IF w.kind = "upsert" THEN "up" ELSE "hi", "fail")
  /\ inflight' = inflight \ {w}
  /\ UNCHANGED <<reads, USE_QUEUE, USE_CACHE, now, wait, workers, calls, current,
                 history, cache, upserted, lastUpsert>>

\* a plausible slip: the invalidation sits in a finally block and runs
\* whatever the writes did
InvalidateCacheAlways(cls, j, failed) ==
  /\ USE_CACHE
  /\ j \in JobsIn(cls, "active")
  /\ queue[cls][j].pc = "write"
  /\ queue[cls][j].up # "pending" /\ queue[cls][j].hi # "pending"
  /\ failed \subseteq InvalidationKeys(cls, DeviceId(cls, queue[cls][j].data))
  /\ faults' = IF failed = {} THEN faults ELSE faults + 1
  /\ cache' = Del(cache, InvalidationKeys(cls, DeviceId(cls, queue[cls][j].data)) \ failed)
  /\ queue' = [queue EXCEPT ![cls][j].pc = "return"]
  /\ UNCHANGED <<reads, USE_QUEUE, USE_CACHE, now, wait, workers, inflight, calls,
                 current, history, upserted, lastUpsert>>

\* after both writes resolved: del() of the device's keys when USE_CACHE;
\* a failing del is caught and logged.  failed = the keys whose del failed
InvalidateCache(cls, j, failed) ==
  /\ USE_CACHE
  /\ j \in JobsIn(cls, "active")
  /\ queue[cls][j].pc = "write"
  /\ queue[cls][j].up = "ok" /\ queue[cls][j].hi = "ok"
  /\ failed \subseteq InvalidationKeys(cls, DeviceId(cls, queue[cls][j].data))
  /\ faults' = IF failed = {} THEN faults ELSE faults + 1
  /\ cache' = Del(cache, InvalidationKeys(cls, DeviceId(cls, queue[cls][j].data)) \ failed)
  /\ queue' = [queue EXCEPT ![cls][j].pc = "return"]
  /\ UNCHANGED <<reads, USE_QUEUE, USE_CACHE, now, wait, workers, inflight, calls,
                 current, history, upserted, lastUpsert>>

\* a plausible slip: Promise.allSettled, process() returns whatever the writes did
ResolvedAllSettled(job) == job.up # "pending" /\ job.hi # "pending"

\* await Promise.all([...]) resolves when both writes have succeeded
Resolved(job) == job.up = "ok" /\ job.hi = "ok"

\* a plausible slip: the attempt is rejected only when both writes failed
RejectedBothFailed(job) == job.up = "fail" /\ job.hi = "fail"

\* Promise.all rejects as soon as one write has failed
Rejected(job) == job.up = "fail" \/ job.hi = "fail"

\* process() returns { success: true }: the job is moved to completed and
\* the completed set is trimmed by removeOnComplete
Complete(cls, j) ==
  /\ j \in JobsIn(cls, "active")
  /\ Resolved(queue[cls][j])
  /\ queue[cls][j].pc = IF USE_CACHE THEN "return" ELSE "write"
  /\ queue' = [queue EXCEPT ![cls] =
        Trim("completed", JobOptions.removeOnCompleteAge,
             JobOptions.removeOnCompleteCount,
             [@ EXCEPT ![j].state = "completed", ![j].pc = "idle",
                       ![j].attemptsMade = @ + 1, ![j].finishedOn = now])]
  /\ workers' = [workers EXCEPT ![cls] =
        [s \in 1..Concurrency |-> IF @[s] = j THEN 0 ELSE @[s]]]
  /\ UNCHANGED <<reads, USE_QUEUE, USE_CACHE, now, wait, inflight, calls, current,
                 history, cache, faults, upserted, lastUpsert>>

\* process() rethrows: the job is retried after a backoff while attempts
\* remain, else moved to failed; the failed set is trimmed by removeOnFail.
\* A write of the attempt that is still pending stays in flight.
Fail(cls, j) ==
  /\ j \in JobsIn(cls, "active")
  /\ queue[cls][j].pc = "write"
  /\ Rejected(queue[cls][j])
  /\ LET made == queue[cls][j].attemptsMade + 1
     IN  /\ queue' = [queue EXCEPT ![cls] =
               IF made < JobOptions.attempts
               THEN [@ EXCEPT ![j].state = "delayed", ![j].pc = "idle",
                              ![j].attemptsMade = made,
                              ![j].backoffs = Append(@, BackoffDelay(made)),
                              ![j].readyAt = now + BackoffDelay(made)]
               ELSE Trim("failed", JobOptions.removeOnFailAge, JobOptions.removeOnFailCount,
                         [@ EXCEPT ![j].state = "failed", ![j].pc = "idle",
                                   ![j].attemptsMade = made,
                                   ![j].finishedOn = now])]
  /\ workers' = [workers EXCEPT ![cls] =
        [s \in 1..Concurrency |-> IF @[s] = j THEN 0 ELSE @[s]]]
  /\ UNCHANGED <<reads, USE_QUEUE, USE_CACHE, now, wait, inflight, calls, current,
                 history, cache, faults, upserted, lastUpsert>>

\* a delayed job whose backoff has elapsed goes back to the wait list
Promote(cls, j) ==
  /\ j \in JobsIn(cls, "delayed")
  /\ now >= queue[cls][j].readyAt
  /\ queue' = [queue EXCEPT ![cls][j].state = "waiting"]
  /\ wait' = [wait EXCEPT ![cls] = Append(@, j)]
  /\ UNCHANGED <<reads, USE_QUEUE, USE_CACHE, now, workers, inflight, calls,
                 current, history, cache, faults, upserted, lastUpsert>>

\* the instants at which a backoff elapses
BackoffDeadlines ==
  UNION { {queue[cls][j].readyAt : j \in JobsIn(cls, "delayed")} : cls \in Classes }

\* the instants at which a backoff elapses or a finished job reaches the
\* age of the default retention
Deadlines ==
  UNION { {queue[cls][j].readyAt : j \in JobsIn(cls, "delayed")}
          \cup {queue[cls][j].finishedOn + DefaultJobOptions.removeOnCompleteAge * 1000 :
                  j \in JobsIn(cls, "completed")}
          \cup {queue[cls][j].finishedOn + DefaultJobOptions.removeOnFailAge * 1000 :
                  j \in JobsIn(cls, "failed")} : cls \in Classes }

\* time passes, up to a later instant
AdvanceClock(t) ==
  /\ t > now
  /\ now' = t
  /\ UNCHANGED <<reads, USE_QUEUE, USE_CACHE, queue, wait, workers, inflight, calls,
                 current, history, cache, faults, upserted, lastUpsert>>

(* ----------------------------- direct mode ----------------------------- *)
CallsAt(pc) == {c \in 1..Len(calls) : calls[c].pc = pc}

\* ingestMeterDirect / ingestVehicleDirect: await the current-state upsert
DirectUpsert(c) ==
  /\ c \in CallsAt("upsert")
  /\ Storable(calls[c].data)
  /\ LET cls == calls[c].cls
         data == calls[c].data
         d == DeviceId(cls, data)
     IN  /\ current' = [current EXCEPT ![cls] =
               Upsert(@, KeyColumn(cls), data, DirectUpdateColumns(cls), now)]
         /\ upserted' = [upserted EXCEPT ![cls] = @ \cup {d}]
         /\ lastUpsert' = [lastUpsert EXCEPT ![cls][d] = <<data>>]
  /\ calls' = [calls EXCEPT ![c].pc = "insert"]
  /\ UNCHANGED <<reads, USE_QUEUE, USE_CACHE, now, queue, wait, workers, inflight,
                 history, cache, faults>>

\* then await the history insert; without cache the call returns success
DirectInsert(c) ==
  /\ c \in CallsAt("insert")
  /\ Storable(calls[c].data)
  /\ history' = [history EXCEPT ![calls[c].cls] =
        Insert(@, KeyColumn(calls[c].cls), calls[c].data, now)]
  /\ calls' = IF USE_CACHE THEN [calls EXCEPT ![c].pc = "invalidate"]
              ELSE [calls EXCEPT ![c].pc = "done", ![c].result = "ok"]
  /\ UNCHANGED <<reads, USE_QUEUE, USE_CACHE, now, queue, wait, workers, inflight,
                 current, cache, faults, upserted, lastUpsert>>

\* a plausible slip: a catch block that logs and returns normally
DirectThrownSwallowed == "ok"

\* catch (error) { logger.error(...); throw error }: the call fails
DirectThrown == "error"

\* the upsert of a record without an instant is rejected by the database:
\* the catch block logs and rethrows
DirectReject(c) ==
  /\ c \in CallsAt("upsert")
  /\ ~Storable(calls[c].data)
  /\ calls' = [calls EXCEPT ![c].pc = "done", ![c].result = DirectThrown]
  /\ UNCHANGED <<reads, USE_QUEUE, USE_CACHE, now, queue, wait, workers, inflight,
                 current, history, cache, faults, upserted, lastUpsert>>

\* a storage fault in either write: the catch block logs and rethrows
DirectWriteFail(c) ==
  /\ c \in CallsAt("upsert") \cup CallsAt("insert")
  /\ faults' = faults + 1
  /\ calls' = [calls EXCEPT ![c].pc = "done", ![c].result = DirectThrown]
  /\ UNCHANGED <<reads, USE_QUEUE, USE_CACHE, now, queue, wait, workers, inflight,
                 current, history, cache, upserted, lastUpsert>>

\* then await del() of the device's keys; a failing del is not caught here,
\* it reaches the catch block and the call throws
DirectInvalidate(c, failed) ==
  /\ c \in CallsAt("invalidate")
  /\ failed \subseteq InvalidationKeys(calls[c].cls, DeviceId(calls[c].cls, calls[c].data))
  /\ faults' = IF failed = {} THEN faults ELSE faults + 1
  /\ cache' = Del(cache, InvalidationKeys(calls[c].cls, DeviceId(calls[c].cls, calls[c].data)) \ failed)
  /\ calls' = [calls EXCEPT ![c].pc = "done",
                            ![c].result = IF failed = {} THEN "ok" ELSE DirectThrown]
  /\ UNCHANGED <<reads, USE_QUEUE, USE_CACHE, now, queue, wait, workers, inflight,
                 current, history, upserted, lastUpsert>>

(* --------------------------- performance query ------------------------- *)
\* JS / SQL ABS
Abs(x) == IF x < 0 THEN 0 - x ELSE x

\* Math.round(n / d) for d > 0: the nearest integer, a half goes upwards
Round(n, d) == (2 * n + d) \div (2 * d)

\* SQL SUM over the joined rows
RECURSIVE SumOver(_, _)
SumOver(S, f) ==
  IF S = {} THEN 0
  ELSE LET x == CHOOSE y \in S : TRUE IN f[x] + SumOver(S \ {x}, f)

\* a plausible slip: a strict comparison, a pair 30.0s apart is dropped
Within30sStrict(v, m) == Abs(v.timestamp - m.timestamp) < 30 * 1000

\* ABS(EXTRACT(EPOCH FROM (v.timestamp - m.timestamp))) <= 30
Within30s(v, m) == Abs(v.timestamp - m.timestamp) <= 30 * 1000

\* a plausible slip: each vehicle row is joined to one meter row only
JoinedPairsDistinct(vh, mh, vehicleId, last24Hours) ==
  {p \in (1..Len(vh)) \X (1..Len(mh)) :
     /\ vh[p[1]].vehicleId = mh[p[2]].meterId
     /\ Within30s(vh[p[1]], mh[p[2]])
     /\ vh[p[1]].vehicleId = vehicleId
     /\ vh[p[1]].timestamp >= last24Hours
     /\ \A k \in 1..(p[2] - 1) :
          ~(vh[p[1]].vehicleId = mh[k].meterId /\ Within30s(vh[p[1]], mh[k]))}

\* FROM vehicle_history v INNER JOIN meter_history m ON ... WHERE ...:
\* the (vehicle row, meter row) pairs the query aggregates
JoinedPairs(vh, mh, vehicleId, last24Hours) ==
  {p \in (1..Len(vh)) \X (1..Len(mh)) :
     /\ vh[p[1]].vehicleId = mh[p[2]].meterId
     /\ Within30s(vh[p[1]], mh[p[2]])
     /\ vh[p[1]].vehicleId = vehicleId
     /\ vh[p[1]].timestamp >= last24Hours}

\* the one row the aggregate SELECT returns; AVG is kept as sum and count
Query(vh, mh, vehicleId, last24Hours) ==
  LET P == JoinedPairs(vh, mh, vehicleId, last24Hours)
  IN  [total_ac |-> SumOver(P, [p \in P |-> mh[p[2]].kwhConsumedAc]),
       total_dc |-> SumOver(P, [p \in P |-> vh[p[1]].kwhDeliveredDc]),
       temp_sum |-> SumOver(P, [p \in P |-> vh[p[1]].batteryTemp]),
       reading_count |-> Cardinality(P)]

\* a plausible slip: the test is made on the sum, not on the count
NoDataZeroSum(result) == result.total_ac = 0

\* the NotFoundException test on the aggregate row
NoData(result) == result.reading_count = 0

\* a plausible slip: the ratio is taken from the rounded, inverted sums
EfficiencyInverted(totalAc, totalDc) ==
  IF totalDc > 0 THEN Round(totalAc * 100 * 100, totalDc) ELSE 0

\* totalAc > 0 ? (totalDc / totalAc) * 100 : 0, rounded to 2 decimals;
\* the value is in hundredths of a percent
Efficiency(totalAc, totalDc) ==
  IF totalAc > 0 THEN Round(totalDc * 100 * 100, totalAc) ELSE 0

\* PerformanceResponseDto of AnalyticsCachedService.getPerformance; the
\* numbers are rounded to 2 decimals and held in hundredths
CachedResponse(vehicleId, result) ==
  [vehicleId |-> vehicleId, period |-> "24h",
   totalEnergyConsumedAc |-> Round(result.total_ac * 100, 1),
   totalEnergyDeliveredDc |-> Round(result.total_dc * 100, 1),
   efficiencyRatio |-> Efficiency(result.total_ac, result.total_dc),
   avgBatteryTemp |-> Round(result.temp_sum * 100, result.reading_count)]

\* PerformanceResponseDto of AnalyticsService.getPerformance (cache off):
\* Math.round((totalDc / totalAc) * 10000) / 100
AnalyticsResponse(vehicleId, result) ==
  [vehicleId |-> vehicleId, period |-> "24h",
   totalEnergyConsumedAc |-> Round(result.total_ac * 100, 1),
   totalEnergyDeliveredDc |-> Round(result.total_dc * 100, 1),
   efficiencyRatio |-> IF result.total_ac > 0
                       THEN Round(result.total_dc * 10000, result.total_ac) ELSE 0,
   avgBatteryTemp |-> Round(result.temp_sum * 100, result.reading_count)]

Last24Hours == now - 24 * 60 * 60 * 1000

(* ------------------------------ read paths ----------------------------- *)
ReadKinds == Classes \cup {"performance"}

\* findOne({ where: { meterId } }) / findOne({ where: { vehicleId } })
RowsOf(cls, d) == {r \in current[cls] : r[KeyColumn(cls)] = d}

\* findOne found no row; a row found is held as a one-element sequence
Null == <<>>

FindOne(cls, d) ==
  IF RowsOf(cls, d) = {} THEN Null ELSE <<CHOOSE r \in RowsOf(cls, d) : TRUE>>

\* cache-manager ttl arguments of set(), in ms
CurrentTtl == 60 * 1000

PerformanceTtl == 300 * 1000

ReadKey(r) ==
  IF r.kind = "performance" THEN PerformanceCacheKey(r.id) ELSE CurrentCacheKey(r.kind, r.id)

ReadTtl(r) == IF r.kind = "performance" THEN PerformanceTtl ELSE CurrentTtl

\* cacheManager.get(): an entry past its ttl is gone
Cached(k) ==
  IF cache[k] # Miss /\ now < cache[k][1].expires THEN cache[k][1].value ELSE Miss

ReadsAt(pc) == {r \in 1..Len(reads) : reads[r].pc = pc}

\* getMeterCurrent / getVehicleCurrent / AnalyticsController.getPerformance
\* is called: with USE_CACHE the cache is asked first
Get(kind, d) ==
  /\ reads' = Append(reads, [kind |-> kind, id |-> d,
                             pc |-> IF USE_CACHE THEN "get" ELSE "query",
                             outcome |-> "pending", value |-> Null,
                             cached |-> FALSE, last24Hours |-> Last24Hours])
  /\ UNCHANGED <<USE_QUEUE, USE_CACHE, now, queue, wait, workers, inflight,
                 calls, current, history, cache, faults, upserted, lastUpsert>>

\* await cacheManager.get(cacheKey): a hit is returned at once (the
\* performance hit marked cached: true), a miss goes on to storage
CacheGet(r) ==
  /\ r \in ReadsAt("get")
  /\ reads' = IF Cached(ReadKey(reads[r])) # Miss
              THEN [reads EXCEPT ![r].pc = "done", ![r].outcome = "ok",
                                 ![r].value = Cached(ReadKey(reads[r])),
                                 ![r].cached = TRUE]
              ELSE [reads EXCEPT ![r].pc = "query", ![r].last24Hours = Last24Hours]
  /\ UNCHANGED <<USE_QUEUE, USE_CACHE, now, queue, wait, workers, inflight,
                 calls, current, history, cache, faults, upserted, lastUpsert>>

\* a cache call (get or set) of a read rejects: nothing catches it, the
\* read throws
CacheFail(r) ==
  /\ r \in ReadsAt("get") \cup ReadsAt("set")
  /\ faults' = faults + 1
  /\ reads' = [reads EXCEPT ![r].pc = "done", ![r].outcome = "error"]
  /\ UNCHANGED <<USE_QUEUE, USE_CACHE, now, queue, wait, workers, inflight,
                 calls, current, history, cache, upserted, lastUpsert>>

\* a plausible slip: the result is cached whether or not a row was found
CurrentQueryCachesNull(r) ==
  /\ r \in ReadsAt("query") /\ reads[r].kind \in Classes
  /\ LET row == FindOne(reads[r].kind, reads[r].id)
     IN  reads' = IF USE_CACHE
                  THEN [reads EXCEPT ![r].pc = "set", ![r].value = row]
                  ELSE [reads EXCEPT ![r].pc = "done", ![r].outcome = "ok",
                                     ![r].value = row]
  /\ UNCHANGED <<USE_QUEUE, USE_CACHE, now, queue, wait, workers, inflight,
                 calls, current, history, cache, faults, upserted, lastUpsert>>

\* findOne of the current-state row; a row found is cached next
CurrentQuery(r) ==
  /\ r \in ReadsAt("query") /\ reads[r].kind \in Classes
  /\ LET row == FindOne(reads[r].kind, reads[r].id)
     IN  reads' = IF USE_CACHE /\ row # Null
                  THEN [reads EXCEPT ![r].pc = "set", ![r].value = row]
                  ELSE [reads EXCEPT ![r].pc = "done", ![r].outcome = "ok",
                                     ![r].value = row]
  /\ UNCHANGED <<USE_QUEUE, USE_CACHE, now, queue, wait, workers, inflight,
                 calls, current, history, cache, faults, upserted, lastUpsert>>

\* the correlation query of getPerformance: NotFoundException when no
\* pair is counted, else the response, which is cached next
PerformanceQuery(r) ==
  /\ r \in ReadsAt("query") /\ reads[r].kind = "performance"
  /\ LET result == Query(history["vehicle"], history["meter"], reads[r].id,
                         reads[r].last24Hours)
     IN  reads' =
           IF NoData(result)
           THEN [reads EXCEPT ![r].pc = "done", ![r].outcome = "NotFound"]
           ELSE IF USE_CACHE
           THEN [reads EXCEPT ![r].pc = "set",
                              ![r].value = <<CachedResponse(reads[r].id, result)>>]
           ELSE [reads EXCEPT ![r].pc = "done", ![r].outcome = "ok",
                              ![r].value = <<AnalyticsResponse(reads[r].id, result)>>]
  /\ UNCHANGED <<USE_QUEUE, USE_CACHE, now, queue, wait, workers, inflight,
                 calls, current, history, cache, faults, upserted, lastUpsert>>

\* a plausible slip: a catch block that turns every error into NotFound
QueryErrorAsNotFound == "NotFound"

\* the query's rejection is not caught (AnalyticsService rethrows it): the
\* request ends as an internal server error
QueryError == "error"

\* a storage fault in the query: the error leaves the service as it is
QueryFail(r) ==
  /\ r \in ReadsAt("query")
  /\ faults' = faults + 1
  /\ reads' = [reads EXCEPT ![r].pc = "done", ![r].outcome = QueryError]
  /\ UNCHANGED <<USE_QUEUE, USE_CACHE, now, queue, wait, workers, inflight,
                 calls, current, history, cache, upserted, lastUpsert>>

\* await cacheManager.set(cacheKey, result, ttl), then the result is returned
CacheSet(r) ==
  /\ r \in ReadsAt("set")
  /\ cache' = [cache EXCEPT ![ReadKey(reads[r])] =
        <<[value |-> reads[r].value, expires |-> now + ReadTtl(reads[r])]>>]
  /\ reads' = [reads EXCEPT ![r].pc = "done", ![r].outcome = "ok"]
  /\ UNCHANGED <<USE_QUEUE, USE_CACHE, now, queue, wait, workers, inflight,
                 calls, current, history, faults, upserted, lastUpsert>>

\* the instants at which a cache entry expires
CacheDeadlines == {cache[k][1].expires : k \in {x \in CacheKeys : cache[x] # Miss}}

(* --------------------------- queue statistics -------------------------- *)
\* a job added with a priority above 0 awaits its worker in the queue's
\* prioritized set, a job without priority in its wait list
Prioritized(cls) == {j \in JobsIn(cls, "waiting") : JobOptions.priority > 0}

\* Queue.getJobCounts(): one counter per job state, read in one script
GetJobCounts(cls) ==
  [waiting |-> Cardinality(JobsIn(cls, "waiting") \ Prioritized(cls)),
   prioritized |-> Cardinality(Prioritized(cls)),
   active |-> Cardinality(JobsIn(cls, "active")),
   delayed |-> Cardinality(JobsIn(cls, "delayed")),
   completed |-> Cardinality(JobsIn(cls, "completed")),
   failed |-> Cardinality(JobsIn(cls, "failed"))]

\* stats.c || 0: a counter the object lacks reads as undefined, and so as 0
OrZero(stats, c) == IF c \in DOMAIN stats THEN stats[c] ELSE 0

\* a plausible slip: the completed and failed counters are crossed
MapStatsCrossed(stats) ==
  [waiting |-> IF OrZero(stats, "waiting") # 0 THEN stats.waiting ELSE OrZero(stats, "wait"),
   active |-> OrZero(stats, "active"),
   completed |-> OrZero(stats, "failed"), failed |-> OrZero(stats, "completed")]

\* mapStats of getQueueStats: stats.waiting || stats.wait || 0, and so on
MapStats(stats) ==
  [waiting |-> IF OrZero(stats, "waiting") # 0 THEN stats.waiting ELSE OrZero(stats, "wait"),
   active |-> OrZero(stats, "active"),
   completed |-> OrZero(stats, "completed"), failed |-> OrZero(stats, "failed")]

\* what getQueueStats returns for a queue when USE_QUEUE is off
StatsDisabled ==
  [waiting |-> 0, active |-> 0, completed |-> 0, failed |-> 0,
   message |-> "Queue mode is disabled (USE_QUEUE=false)"]

\* the counters getQueueStats shows for a queue, were it read now
QueueStats(cls) == IF USE_QUEUE THEN MapStats(GetJobCounts(cls)) ELSE StatsDisabled

\* getQueueStats is called: with USE_QUEUE off it returns zeros at once,
\* else it asks both queues for their counters
GetQueueStats ==
  /\ reads' = Append(reads,
       [kind |-> "stats", id |-> "", pc |-> IF USE_QUEUE THEN "counts" ELSE "done",
        outcome |-> IF USE_QUEUE THEN "pending" ELSE "ok",
        value |-> IF USE_QUEUE THEN <<>>
                  ELSE <<[queue |-> "meter", stats |-> StatsDisabled],
                         [queue |-> "vehicle", stats |-> StatsDisabled]>>,
        cached |-> FALSE, last24Hours |-> 0])
  /\ UNCHANGED <<USE_QUEUE, USE_CACHE, now, queue, wait, workers, inflight,
                 calls, current, history, cache, faults, upserted, lastUpsert>>

\* the queues whose counters a stats read r has received
CountsRead(r) == {reads[r].value[i].queue : i \in 1..Len(reads[r].value)}

\* one getJobCounts() of the Promise.all resolves; once both have, the
\* mapped counters are returned (mapStats is applied here, per queue)
JobCountsResolve(r, cls) ==
  /\ r \in ReadsAt("counts") /\ reads[r].kind = "stats"
  /\ cls \notin CountsRead(r)
  /\ LET value == Append(reads[r].value,
                         [queue |-> cls, stats |-> MapStats(GetJobCounts(cls))])
     IN  reads' = IF Len(value) = Cardinality(Classes)
                  THEN [reads EXCEPT ![r].pc = "done", ![r].outcome = "ok",
                                     ![r].value = value]
                  ELSE [reads EXCEPT ![r].value = value]
  /\ UNCHANGED <<USE_QUEUE, USE_CACHE, now, queue, wait, workers, inflight,
                 calls, current, history, cache, faults, upserted, lastUpsert>>

\* a getJobCounts() rejects: the catch block logs and rethrows
JobCountsFail(r) ==
  /\ r \in ReadsAt("counts") /\ reads[r].kind = "stats"
  /\ faults' = faults + 1
  /\ reads' = [reads EXCEPT ![r].pc = "done", ![r].outcome = "error"]
  /\ UNCHANGED <<USE_QUEUE, USE_CACHE, now, queue, wait, workers, inflight,
                 calls, current, history, cache, upserted, lastUpsert>>

(* ----------------------------- history scan ---------------------------- *)
\* instant 0 is 2026-02-08T00:00:00Z; days are counted from that day
Day == 24 * 60 * 60 * 1000

DayOf(timestamp) == timestamp \div Day

\* the days 2026-02-01, 2026-03-01, 2026-04-01 and 2026-05-01
FebruaryFirst == 0 - 7

MarchFirst == FebruaryFirst + 28

AprilFirst == MarchFirst + 31

MayFirst == AprilFirst + 30

\* <class>_history_2026_02, _03, _04: FOR VALUES FROM (from) TO (to), the
\* upper bound exclusive
Partitions ==
  << [from |-> FebruaryFirst, to |-> MarchFirst],
     [from |-> MarchFirst, to |-> AprilFirst],
     [from |-> AprilFirst, to |-> MayFirst] >>

InPartition(p, timestamp) == p.from <= DayOf(timestamp) /\ DayOf(timestamp) < p.to

\* the rows of the parent table that partition p stores
PartitionRows(log, p) ==
  LET stored(r) == InPartition(p, r.timestamp)
  IN  SelectSeq(log, stored)

\* partition pruning: the partitions whose bounds overlap the range
Scanned(startDate, endDate) ==
  {i \in 1..Len(Partitions) :
     Partitions[i].to > DayOf(startDate) /\ Partitions[i].from <= DayOf(endDate)}

RECURSIVE Concat(_, _)
Concat(ss, i) == IF i > Len(ss) THEN <<>> ELSE ss[i] \o Concat(ss, i + 1)

\* WHERE vh.vehicle_id = :vehicleId AND vh.timestamp >= :startDate
\* AND vh.timestamp <= :endDate, evaluated on every partition not pruned
Matching(log, vehicleId, startDate, endDate) ==
  LET match(r) == /\ r.vehicleId = vehicleId
                  /\ r.timestamp >= startDate
                  /\ r.timestamp <= endDate
      part(i) == IF i \in Scanned(startDate, endDate)
                 THEN SelectSeq(PartitionRows(log, Partitions[i]), match)
                 ELSE <<>>
  IN  Concat([i \in 1..Len(Partitions) |-> part(i)], 1)

\* the orders SQL leaves open between two rows of equal timestamp
TieOrders == {"idAsc", "idDesc"}

\* ORDER BY vh.timestamp DESC
OrderBy(rows, tie) ==
  LET before(a, b) ==
        \/ a.timestamp > b.timestamp
        \/ a.timestamp = b.timestamp
             /\ IF tie = "idAsc" THEN a.id < b.id ELSE a.id > b.id
  IN  SortSeq(rows, before)

\* .limit(1000)
ScanLimit == 1000

Limit(rows) == SubSeq(rows, 1, IF Len(rows) < ScanLimit THEN Len(rows) ELSE ScanLimit)

\* AnalyticsService.getVehicleHistory
GetVehicleHistory(vehicleId, startDate, endDate, tie) ==
  Limit(OrderBy(Matching(history["vehicle"], vehicleId, startDate, endDate), tie))

\* a query parameter left out
Absent == <<>>

\* AnalyticsController.getHistory: startDate defaults to 24 hours ago,
\* endDate to now; the rows found are the response
GetHistory(vehicleId, startDate, endDate, tie) ==
  /\ LET start == IF startDate # Absent THEN startDate[1] ELSE now - Day
         end == IF endDate # Absent THEN endDate[1] ELSE now
     IN  reads' = Append(reads,
            [kind |-> "history", id |-> vehicleId, pc |-> "done", outcome |-> "ok",
             startDate |-> start, endDate |-> end,
             value |-> GetVehicleHistory(vehicleId, start, end, tie)])
  /\ UNCHANGED <<USE_QUEUE, USE_CACHE, now, queue, wait, workers, inflight,
                 calls, current, history, cache, faults, upserted, lastUpsert>>

(* ---------------------------- specifications ------------------------- *)
Accepted == Len(queue["meter"]) + Len(queue["vehicle"])

\* the invalidation keys of job j of cls / of call c
JobKeys(cls, j) == InvalidationKeys(cls, DeviceId(cls, queue[cls][j].data))

CallKeys(c) == InvalidationKeys(calls[c].cls, DeviceId(calls[c].cls, calls[c].data))

\* Spec: both modes, every input; time passes only while a backoff runs
Next ==
  \/ \E cls \in Classes : \E dto \in Dto(cls) :
        /\ IF USE_QUEUE THEN Accepted < MaxJobs ELSE Len(calls) < MaxCalls
        /\ Ingest(cls, dto)
  \/ \E cls \in Classes : Dequeue(cls)
  \/ \E w \in inflight : UpsertCommit(w)
  \/ \E w \in inflight : InsertCommit(w)
  \/ \E w \in inflight : faults < MaxFaults /\ WriteFail(w)
  \/ \E cls \in Classes : \E j \in JobIds(cls) : \E failed \in SUBSET JobKeys(cls, j) :
        /\ failed # {} => faults < MaxFaults
        /\ InvalidateCache(cls, j, failed)
  \/ \E cls \in Classes : \E j \in JobIds(cls) : Complete(cls, j)
  \/ \E cls \in Classes : \E j \in JobIds(cls) :
        /\ Cardinality(DetachedAfterFail(cls, j)) <= MaxDetached
        /\ Fail(cls, j)
  \/ \E cls \in Classes : \E j \in JobIds(cls) : Promote(cls, j)
  \/ \E t \in BackoffDeadlines : AdvanceClock(t)
  \/ \E c \in 1..Len(calls) : DirectUpsert(c)
  \/ \E c \in 1..Len(calls) : DirectInsert(c)
  \/ \E c \in 1..Len(calls) : faults < MaxFaults /\ DirectWriteFail(c)
  \/ \E c \in 1..Len(calls) : \E failed \in SUBSET CallKeys(c) :
        /\ failed # {} => faults < MaxFaults
        /\ DirectInvalidate(c, failed)

Spec == Init /\ [][Next]_vars

\* SpecRetry: queue mode, one reading per class, enough faults to exhaust a
\* job's attempts; time also passes up to the retention ages.  An attempt
\* is failed here once both of its writes have settled.
RetryDto(cls) == {dto \in Dto(cls) : DeviceId(cls, dto) = "D1" /\ dto.timestamp = 1}

InitRetry == Init /\ USE_QUEUE

WorkerStep(maxFaults, maxDetached) ==
  \/ \E cls \in Classes : Dequeue(cls)
  \/ \E w \in inflight : UpsertCommit(w)
  \/ \E w \in inflight : InsertCommit(w)
  \/ \E w \in inflight : faults < maxFaults /\ WriteFail(w)
  \/ \E cls \in Classes : \E j \in JobIds(cls) : \E failed \in SUBSET JobKeys(cls, j) :
        /\ failed # {} => faults < maxFaults
        /\ InvalidateCache(cls, j, failed)
  \/ \E cls \in Classes : \E j \in JobIds(cls) : Complete(cls, j)
  \/ \E cls \in Classes : \E j \in JobIds(cls) :
        /\ Cardinality(DetachedAfterFail(cls, j)) <= maxDetached
        /\ Fail(cls, j)
  \/ \E cls \in Classes : \E j \in JobIds(cls) : Promote(cls, j)

NextRetry ==
  \/ \E cls \in Classes : \E dto \in RetryDto(cls) :
        Accepted < MaxRetryJobs /\ Ingest(cls, dto)
  \/ WorkerStep(MaxRetryFaults, 0)
  \/ \E t \in Deadlines : AdvanceClock(t)

SpecRetry == InitRetry /\ [][NextRetry]_vars

\* SpecLive: SpecRetry in the default configuration (queue and cache on)
\* under fair scheduling: a worker with a free slot fetches, an issued write
\* settles, process() runs on to its return or throw, the queue hands a
\* finished attempt on, and backoffs elapse
InitLive == InitRetry /\ USE_CACHE

SpecLive ==
  /\ InitLive /\ [][NextRetry]_vars
  /\ WF_vars(\E cls \in Classes : Dequeue(cls))
  /\ WF_vars(\E w \in inflight : UpsertCommit(w))
  /\ WF_vars(\E w \in inflight : InsertCommit(w))
  /\ WF_vars(\E cls \in Classes : \E j \in JobIds(cls) : InvalidateCache(cls, j, {}))
  /\ WF_vars(\E cls \in Classes : \E j \in JobIds(cls) : Complete(cls, j))
  /\ WF_vars(\E cls \in Classes : \E j \in JobIds(cls) : Fail(cls, j))
  /\ WF_vars(\E cls \in Classes : \E j \in JobIds(cls) : Promote(cls, j))
  /\ WF_vars(\E t \in BackoffDeadlines : AdvanceClock(t))

\* SpecCache: ingestion of one device's records in either mode, with
\* current-state and performance reads running beside it; storage writes
\* succeed, a cache call or a query may fail; a record is submitted once
\* the one before it has been applied; time passes up to the expiry of a
\* cache entry
CacheDto(cls) ==
  {dto \in Dto(cls) : DeviceId(cls, dto) = "D1" /\ (cls = "vehicle" => dto.timestamp = 1)}

\* no ingest is under way: every job is finished and every call has returned
Quiet ==
  /\ \A cls \in Classes : \A j \in JobIds(cls) :
        queue[cls][j].state \in {"completed", "failed", "removed"}
  /\ inflight = {}
  /\ \A c \in 1..Len(calls) : calls[c].pc = "done"

NextCache ==
  \/ \E cls \in Classes : \E dto \in CacheDto(cls) :
        /\ Accepted + Len(calls) < MaxCacheIngests
        /\ Quiet
        /\ Ingest(cls, dto)
  \/ \E cls \in Classes : Dequeue(cls)
  \/ \E w \in inflight : UpsertCommit(w)
  \/ \E w \in inflight : InsertCommit(w)
  \/ \E cls \in Classes : \E j \in JobIds(cls) : \E failed \in SUBSET JobKeys(cls, j) :
        /\ failed # {} => faults < MaxCacheFaults
        /\ InvalidateCache(cls, j, failed)
  \/ \E cls \in Classes : \E j \in JobIds(cls) : Complete(cls, j)
  \/ \E c \in 1..Len(calls) : DirectUpsert(c)
  \/ \E c \in 1..Len(calls) : DirectInsert(c)
  \/ \E c \in 1..Len(calls) : \E failed \in SUBSET CallKeys(c) :
        /\ failed # {} => faults < MaxCacheFaults
        /\ DirectInvalidate(c, failed)
  \/ \E kind \in ReadKinds : Len(reads) < MaxReads /\ Get(kind, "D1")
  \/ \E r \in 1..Len(reads) : CacheGet(r)
  \/ \E r \in 1..Len(reads) : faults < MaxCacheFaults /\ CacheFail(r)
  \/ \E r \in 1..Len(reads) : CurrentQuery(r)
  \/ \E r \in 1..Len(reads) : PerformanceQuery(r)
  \/ \E r \in 1..Len(reads) : faults < MaxCacheFaults /\ QueryFail(r)
  \/ \E r \in 1..Len(reads) : CacheSet(r)
  \/ \E t \in CacheDeadlines : AdvanceClock(t)

SpecCache == Init /\ [][NextCache]_vars

\* SpecFlag: a client submits records one after the other, each once the
\* response to the one before has arrived, and nothing fails.  In queue
\* mode the response is the enqueue acknowledgement, in direct mode it is
\* the end of the dual write.
NextFlag ==
  \/ \E cls \in Classes : \E dto \in Dto(cls) :
        /\ Accepted + Len(calls) < MaxFlagIngests
        /\ \A c \in 1..Len(calls) : calls[c].pc = "done"
        /\ Ingest(cls, dto)
  \/ \E cls \in Classes : Dequeue(cls)
  \/ \E w \in inflight : UpsertCommit(w)
  \/ \E w \in inflight : InsertCommit(w)
  \/ \E cls \in Classes : \E j \in JobIds(cls) : InvalidateCache(cls, j, {})
  \/ \E cls \in Classes : \E j \in JobIds(cls) : Complete(cls, j)
  \/ \E c \in 1..Len(calls) : DirectUpsert(c)
  \/ \E c \in 1..Len(calls) : DirectInsert(c)
  \/ \E c \in 1..Len(calls) : DirectInvalidate(c, {})

SpecFlag == Init /\ [][NextFlag]_vars

\* SpecPerf: the performance query over histories built by direct
\* ingestion of readings placed around the 30s tolerance and the 24h
\* window; time passes between requests.  The readings: meter readings 5s and exactly 30.0s before the first vehicle
\* reading (the latter with zero energy), exactly 30.0s and 30.01s after it
PerfMeterReadings ==
  { [kwhConsumedAc |-> 10, voltage |-> 230, timestamp |-> 25000],
    [kwhConsumedAc |-> 0, voltage |-> 230, timestamp |-> 0],
    [kwhConsumedAc |-> 7, voltage |-> 240, timestamp |-> 60000],
    [kwhConsumedAc |-> 7, voltage |-> 240, timestamp |-> 60010] }

PerfVehicleReadings ==
  { [soc |-> 80, kwhDeliveredDc |-> 9, batteryTemp |-> 28, timestamp |-> 30000],
    [soc |-> 90, kwhDeliveredDc |-> 4, batteryTemp |-> 33, timestamp |-> 30010] }

PerfDto(cls) ==
  IF cls = "meter"
  THEN { [meterId |-> "D1"] @@ r : r \in PerfMeterReadings }
       \cup { [meterId |-> "D2", kwhConsumedAc |-> 10, voltage |-> 230, timestamp |-> 25000] }
  ELSE { [vehicleId |-> "D1"] @@ r : r \in PerfVehicleReadings }
       \cup { [vehicleId |-> "D2", soc |-> 80, kwhDeliveredDc |-> 9, batteryTemp |-> 28,
               timestamp |-> 30000] }

\* the instants 24h after the first vehicle reading, and just past it
PerfInstants == {24 * 60 * 60 * 1000 + 30000, 24 * 60 * 60 * 1000 + 30001}

InitPerf == Init /\ ~USE_QUEUE

NextPerf ==
  \/ \E cls \in Classes : \E dto \in PerfDto(cls) :
        /\ Len(calls) < MaxPerfIngests
        /\ \A c \in 1..Len(calls) : calls[c].pc = "done"
        /\ Ingest(cls, dto)
  \/ \E c \in 1..Len(calls) : DirectUpsert(c)
  \/ \E c \in 1..Len(calls) : DirectInsert(c)
  \/ \E c \in 1..Len(calls) : DirectInvalidate(c, {})
  \/ \E d \in Devices : Len(reads) < MaxPerfReads /\ Get("performance", d)
  \/ \E r \in 1..Len(reads) : CacheGet(r)
  \/ \E r \in 1..Len(reads) : PerformanceQuery(r)
  \/ \E r \in 1..Len(reads) : faults < MaxPerfFaults /\ QueryFail(r)
  \/ \E r \in 1..Len(reads) : CacheSet(r)
  \/ \E t \in PerfInstants : Quiet /\ reads = <<>> /\ AdvanceClock(t)

SpecPerf == InitPerf /\ [][NextPerf]_vars

\* SpecFan: the performance query over a history in which one vehicle row
\* of D1 lies within 30s of two meter rows and another within 30s of one
FanDto(cls) ==
  IF cls = "meter"
  THEN { [meterId |-> "D1"] @@ r : r \in {m \in PerfMeterReadings : m.timestamp <= 25000} }
  ELSE { [vehicleId |-> "D1"] @@ r : r \in PerfVehicleReadings }

NextFan ==
  \/ \E cls \in Classes : \E dto \in FanDto(cls) :
        /\ Len(calls) < MaxFanIngests
        /\ \A c \in 1..Len(calls) : calls[c].pc = "done"
        /\ Ingest(cls, dto)
  \/ \E c \in 1..Len(calls) : DirectUpsert(c)
  \/ \E c \in 1..Len(calls) : DirectInsert(c)
  \/ \E c \in 1..Len(calls) : DirectInvalidate(c, {})
  \/ Len(reads) < MaxFanReads /\ Quiet /\ Get("performance", "D1")
  \/ \E r \in 1..Len(reads) : CacheGet(r)
  \/ \E r \in 1..Len(reads) : PerformanceQuery(r)
  \/ \E r \in 1..Len(reads) : CacheSet(r)

SpecFan == InitPerf /\ [][NextFan]_vars

\* SpecBacklog: queue mode, no fault: records are enqueued at any rate, the
\* workers fetch and apply them under fair scheduling, and time may pass
\* up to the retention ages between two completions
NextBacklog ==
  \/ \E cls \in Classes : \E dto \in RetryDto(cls) :
        Len(queue[cls]) < MaxBacklogJobs /\ Ingest(cls, dto)
  \/ \E cls \in Classes : Dequeue(cls)
  \/ \E w \in inflight : UpsertCommit(w)
  \/ \E w \in inflight : InsertCommit(w)
  \/ \E cls \in Classes : \E j \in JobIds(cls) : InvalidateCache(cls, j, {})
  \/ \E cls \in Classes : \E j \in JobIds(cls) : Complete(cls, j)
  \/ \E t \in Deadlines : AdvanceClock(t)

SpecBacklog ==
  /\ InitRetry /\ [][NextBacklog]_vars
  /\ WF_vars(\E cls \in Classes : Dequeue(cls))
  /\ WF_vars(\E w \in inflight : UpsertCommit(w))
  /\ WF_vars(\E w \in inflight : InsertCommit(w))
  /\ WF_vars(\E cls \in Classes : \E j \in JobIds(cls) : InvalidateCache(cls, j, {}))
  /\ WF_vars(\E cls \in Classes : \E j \in JobIds(cls) : Complete(cls, j))

\* SpecStats: the queue statistics read beside the workers; history
\* inserts may fail, often enough to exhaust a job's attempts; with
\* USE_QUEUE off only the read runs
NextStats ==
  \/ \E cls \in Classes : \E dto \in RetryDto(cls) :
        USE_QUEUE /\ Accepted < MaxStatsJobs /\ Ingest(cls, dto)
  \/ \E cls \in Classes : Dequeue(cls)
  \/ \E w \in inflight : UpsertCommit(w)
  \/ \E w \in inflight : InsertCommit(w)
  \/ \E w \in inflight : faults < MaxStatsFaults /\ w.kind = "insert" /\ WriteFail(w)
  \/ \E cls \in Classes : \E j \in JobIds(cls) : InvalidateCache(cls, j, {})
  \/ \E cls \in Classes : \E j \in JobIds(cls) : Complete(cls, j)
  \/ \E cls \in Classes : \E j \in JobIds(cls) :
        DetachedAfterFail(cls, j) = {} /\ Fail(cls, j)
  \/ \E cls \in Classes : \E j \in JobIds(cls) : Promote(cls, j)
  \/ \E t \in BackoffDeadlines : AdvanceClock(t)
  \/ Len(reads) < MaxStatsReads /\ GetQueueStats
  \/ \E r \in 1..Len(reads) : \E cls \in Classes : JobCountsResolve(r, cls)
  \/ \E r \in 1..Len(reads) : faults < MaxStatsFaults /\ JobCountsFail(r)

SpecStats == Init /\ [][NextStats]_vars

\* SpecScan: the history scan of the analytics API over a vehicle history
\* that is empty or already holds ScanLimit readings of D1, one per
\* reporting interval from the first instant of March on; records are
\* written in direct mode, one after the other
ReportingInterval == 60 * 1000

\* the first instant of 2026-03-01
Boundary == MarchFirst * Day

Backfill ==
  [i \in 1..ScanLimit |->
     [id |-> i, vehicleId |-> "D1", soc |-> 80, kwhDeliveredDc |-> 9,
      batteryTemp |-> 28, timestamp |-> Boundary + (i - 1) * ReportingInterval,
      createdAt |-> Boundary + (i - 1) * ReportingInterval]]

\* the instant of the last backfilled reading
ScanStart == Boundary + (ScanLimit - 1) * ReportingInterval

\* readings of the last instant of February and of the first of March,
\* which the backfilled store holds too
ScanDto ==
  { [vehicleId |-> d, soc |-> 90, kwhDeliveredDc |-> 18, batteryTemp |-> 35,
     timestamp |-> t] : d \in Devices, t \in {Boundary - 1, Boundary} }

\* startDate and endDate of a request: the defaults, an hour either side of
\* the partition boundary, the first instant of March alone
ScanRanges ==
  { <<Absent, Absent>>,
    <<(<<Boundary - 60 * ReportingInterval>>), (<<Boundary + 60 * ReportingInterval>>)>>,
    <<(<<Boundary>>), (<<Boundary>>)>> }

InitScan ==
  /\ USE_QUEUE = FALSE
  /\ USE_CACHE \in BOOLEAN
  /\ now = ScanStart
  /\ queue = [cls \in Classes |-> <<>>]
  /\ wait = [cls \in Classes |-> <<>>]
  /\ workers = [cls \in Classes |-> [s \in 1..Concurrency |-> 0]]
  /\ inflight = {}
  /\ calls = <<>>
  /\ history \in { [cls \in Classes |-> <<>>],
                   [cls \in Classes |-> IF cls = "vehicle" THEN Backfill ELSE <<>>] }
  /\ LET last == IF history["vehicle"] = <<>> THEN <<>>
                 ELSE <<[c \in {"vehicleId"} \cup TelemetryColumns("vehicle") |->
                          Backfill[ScanLimit][c]]>>
     IN  /\ current = [cls \in Classes |->
                IF cls = "vehicle" /\ last # <<>>
                THEN {last[1] @@ [updatedAt |-> ScanStart]} ELSE {}]
         /\ upserted = [cls \in Classes |->
                IF cls = "vehicle" /\ last # <<>> THEN {"D1"} ELSE {}]
         /\ lastUpsert = [cls \in Classes |-> [d \in Devices |->
                IF cls = "vehicle" /\ d = "D1" THEN last ELSE <<>>]]
  /\ cache = [k \in CacheKeys |-> Miss]
  /\ faults = 0
  /\ reads = <<>>

NextScan ==
  \/ \E dto \in ScanDto :
        /\ Len(calls) < MaxScanIngests
        /\ \A c \in 1..Len(calls) : calls[c].pc = "done"
        /\ Ingest("vehicle", dto)
  \/ \E c \in 1..Len(calls) : DirectUpsert(c)
  \/ \E c \in 1..Len(calls) : DirectInsert(c)
  \/ \E c \in 1..Len(calls) : DirectInvalidate(c, {})
  \/ \E d \in Devices : \E range \in ScanRanges : \E tie \in TieOrders :
        /\ Len(reads) < MaxScanReads
        /\ GetHistory(d, range[1], range[2], tie)

SpecScan == InitScan /\ [][NextScan]_vars

\* SpecIngress: requests with valid and invalid bodies through the
\* ValidationPipe in either mode; the database rejects what it cannot
\* store, nothing else fails
NextIngress ==
  \/ \E cls \in Classes : \E body \in Bodies(cls) :
        Accepted + Len(calls) < MaxPosts /\ Post(cls, body)
  \/ \E cls \in Classes : Dequeue(cls)
  \/ \E w \in inflight : UpsertCommit(w)
  \/ \E w \in inflight : InsertCommit(w)
  \/ \E w \in inflight : WriteReject(w)
  \/ \E cls \in Classes : \E j \in JobIds(cls) : InvalidateCache(cls, j, {})
  \/ \E cls \in Classes : \E j \in JobIds(cls) : Complete(cls, j)
  \/ \E cls \in Classes : \E j \in JobIds(cls) :
        DetachedAfterFail(cls, j) = {} /\ Fail(cls, j)
  \/ \E cls \in Classes : \E j \in JobIds(cls) : Promote(cls, j)
  \/ \E t \in BackoffDeadlines : AdvanceClock(t)
  \/ \E c \in 1..Len(calls) : DirectUpsert(c)
  \/ \E c \in 1..Len(calls) : DirectInsert(c)
  \/ \E c \in 1..Len(calls) : DirectReject(c)
  \/ \E c \in 1..Len(calls) : DirectInvalidate(c, {})

SpecIngress == Init /\ [][NextIngress]_vars

\* SpecTrim: queue mode, no fault, over a meter queue whose completed set
\* is full: removeOnComplete.count jobs, completed one millisecond apart,
\* the last one now; time passes to just past the retention age of the
\* oldest of them
Processed ==
  LET dto == CHOOSE x \in RetryDto("meter") : TRUE
  IN  [j \in 1..JobOptions.removeOnCompleteCount |->
         [id |-> j] @@ [NewJob(dto) EXCEPT !.state = "completed", !.attemptsMade = 1,
                                           !.up = "ok", !.hi = "ok", !.finishedOn = j]]

TrimInstants ==
  { Processed[j].finishedOn + JobOptions.removeOnCompleteAge * 1000 : j \in 1..2 }

InitTrim ==
  /\ USE_QUEUE = TRUE
  /\ USE_CACHE \in BOOLEAN
  /\ now = Processed[Len(Processed)].finishedOn
  /\ queue = [cls \in Classes |-> IF cls = "meter" THEN Processed ELSE <<>>]
  /\ wait = [cls \in Classes |-> <<>>]
  /\ workers = [cls \in Classes |-> [s \in 1..Concurrency |-> 0]]
  /\ inflight = {}
  /\ calls = <<>>
  /\ current = [cls \in Classes |->
        IF cls = "meter"
        THEN {Processed[Len(Processed)].data @@ [updatedAt |-> now]} ELSE {}]
  /\ history = [cls \in Classes |->
        IF cls = "meter"
        THEN [j \in 1..Len(Processed) |->
                [id |-> j] @@ Processed[j].data @@ [createdAt |-> Processed[j].finishedOn]]
        ELSE <<>>]
  /\ cache = [k \in CacheKeys |-> Miss]
  /\ faults = 0
  /\ upserted = [cls \in Classes |-> IF cls = "meter" THEN {"D1"} ELSE {}]
  /\ lastUpsert = [cls \in Classes |-> [d \in Devices |->
        IF cls = "meter" /\ d = "D1" THEN <<Processed[Len(Processed)].data>> ELSE <<>>]]
  /\ reads = <<>>

NextTrim ==
  \/ \E cls \in Classes : \E dto \in RetryDto(cls) :
        Accepted < Len(Processed) + MaxTrimJobs /\ Ingest(cls, dto)
  \/ \E cls \in Classes : Dequeue(cls)
  \/ \E w \in inflight : UpsertCommit(w)
  \/ \E w \in inflight : InsertCommit(w)
  \/ \E cls \in Classes : \E j \in JobsIn(cls, "active") : InvalidateCache(cls, j, {})
  \/ \E cls \in Classes : \E j \in JobsIn(cls, "active") : Complete(cls, j)
  \/ \E t \in TrimInstants : AdvanceClock(t)

SpecTrim == InitTrim /\ [][NextTrim]_vars

\* SpecFrame: records of both devices and both classes, one reading each,
\* are ingested one after the other in either mode, and current-state and
\* performance reads of both devices run beside them; nothing fails
FrameDto(cls) == {dto \in Dto(cls) : dto.timestamp = 1}

NextFrame ==
  \/ \E cls \in Classes : \E dto \in FrameDto(cls) :
        /\ Accepted + Len(calls) < MaxFrameIngests
        /\ Quiet
        /\ Ingest(cls, dto)
  \/ \E cls \in Classes : Dequeue(cls)
  \/ \E w \in inflight : UpsertCommit(w)
  \/ \E w \in inflight : InsertCommit(w)
  \/ \E cls \in Classes : \E j \in JobIds(cls) : InvalidateCache(cls, j, {})
  \/ \E cls \in Classes : \E j \in JobIds(cls) : Complete(cls, j)
  \/ \E c \in 1..Len(calls) : DirectUpsert(c)
  \/ \E c \in 1..Len(calls) : DirectInsert(c)
  \/ \E c \in 1..Len(calls) : DirectInvalidate(c, {})
  \/ \E kind \in ReadKinds : \E d \in Devices :
        /\ Len(reads) < MaxFrameReads
        /\ \A r \in 1..Len(reads) : reads[r].pc = "done"
        /\ Get(kind, d)
  \/ \E r \in 1..Len(reads) : CacheGet(r)
  \/ \E r \in 1..Len(reads) : CurrentQuery(r)
  \/ \E r \in 1..Len(reads) : PerformanceQuery(r)
  \/ \E r \in 1..Len(reads) : CacheSet(r)

SpecFrame == Init /\ [][NextFrame]_vars

(* ------------------------------- claims -------------------------------- *)
Telemetry(cls, r) == [c \in TelemetryColumns(cls) |-> r[c]]

\* C1: a queue job becomes completed only from an active attempt in which
\* both the current-state upsert and the history insert succeeded, and an
\* active attempt with a failed write never becomes completed: it stays
\* active until it is handed back (delayed for retry, or failed).
C1_AckOnlyAfterBothWrites ==
  [][\A cls \in Classes : \A j \in JobIds(cls) :
       LET job == queue[cls][j]
           st == queue'[cls][j].state
       IN  /\ (st = "completed" /\ job.state # "completed")
                => (job.state = "active" /\ job.up = "ok" /\ job.hi = "ok")
           /\ (job.state = "active" /\ (job.up = "fail" \/ job.hi = "fail"))
                => st \in {"active", "delayed", "failed"}]_vars

\* C1 witness: a job completed on a retry, after an attempt that had
\* committed one write and failed the other
C1_Witness ==
  \E cls \in Classes : \E j \in JobIds(cls) :
    /\ queue[cls][j].state = "completed"
    /\ queue[cls][j].backoffs # <<>>
    /\ Len(history[cls]) + Cardinality(current[cls]) >= 2

\* C2: from every reachable store, applying one valid record twice (with
\* the queue processors' or the direct path's upsert) leaves exactly one
\* current-state row for its device, holding the record's values, and
\* makes the history two rows longer.
C2_RetryKeepsOneRowAddsTwo ==
  \A cls \in Classes : \A dto \in Dto(cls) :
    \A cols \in {ProcessorUpdateColumns(cls), DirectUpdateColumns(cls)} :
      LET key == KeyColumn(cls)
          c1 == Upsert(current[cls], key, dto, cols, now)
          c2 == Upsert(c1, key, dto, cols, now)
          h2 == Insert(Insert(history[cls], key, dto, now), key, dto, now)
          rows == {r \in c2 : r[key] = dto[key]}
      IN  /\ Cardinality(rows) = 1
          /\ \A r \in rows : Telemetry(cls, r) = Telemetry(cls, dto)
          /\ Cardinality(c2) = Cardinality(c1)
          /\ Len(h2) = Len(history[cls]) + 2
          /\ Telemetry(cls, h2[Len(h2)]) = Telemetry(cls, dto)
          /\ Telemetry(cls, h2[Len(h2) - 1]) = Telemetry(cls, dto)

\* C2 witness: a retried job has applied its record twice: two history rows
\* of its values, one current-state row
C2_Witness ==
  \E cls \in Classes : \E j \in JobIds(cls) :
    LET data == queue[cls][j].data
        d == DeviceId(cls, data)
    IN  /\ queue[cls][j].state = "completed"
        /\ queue[cls][j].attemptsMade = 2
        /\ Len(history[cls]) = 2
        /\ \A i \in 1..2 : Telemetry(cls, history[cls][i]) = Telemetry(cls, data)
                             /\ history[cls][i][KeyColumn(cls)] = d
        /\ Cardinality(RowsOf(cls, d)) = 1
        /\ \A r \in RowsOf(cls, d) : Telemetry(cls, r) = Telemetry(cls, data)

C4_FailedKept24hThenDiscarded ==
  \A cls \in Classes : \A j \in JobIds(cls) :
    LET job == queue[cls][j]
    IN  (job.attemptsMade = 3 /\ (job.up = "fail" \/ job.hi = "fail"))
          => IF now < job.finishedOn + 86400 * 1000
             THEN job.state = "failed" ELSE job.state # "failed"

C6_EveryJobTerminates ==
  \A cls \in Classes : \A j \in 1..MaxRetryJobs :
    [](j \in JobIds(cls)
        => <>(j \in JobIds(cls)
                /\ queue[cls][j].state \in {"completed", "failed", "removed"}))

\* C6 witness: every accepted job has ended, one completed and one failed
\* after its three attempts
C6_Witness ==
  /\ Accepted = 2
  /\ \E cls \in Classes : JobsIn(cls, "completed") # {}
  /\ \E cls \in Classes : \E j \in JobsIn(cls, "failed") : queue[cls][j].attemptsMade = 3

\* C7: every active job occupies exactly one of the 10 worker slots of its
\* queue, and a job that is not active occupies none.
C7_OneWorkerPerJob ==
  \A cls \in Classes :
    /\ \A j \in JobIds(cls) :
         Cardinality({s \in 1..10 : workers[cls][s] = j})
           = IF queue[cls][j].state = "active" THEN 1 ELSE 0
    /\ \A s \in 1..Concurrency : workers[cls][s] \in {0} \cup JobIds(cls)

\* C7 witness: two jobs of one queue are active at once
C7_Witness ==
  \E cls \in Classes : Cardinality(JobsIn(cls, "active")) >= 2

\* C8: the current-state store of a class holds exactly one row for each
\* device whose upsert has committed, and no row for any other device.
C8_OneRowPerDevice ==
  \A cls \in Classes : \A d \in Devices :
    Cardinality(RowsOf(cls, d)) = IF d \in upserted[cls] THEN 1 ELSE 0

\* C8 witness: two applies for one device have committed all their writes
\* and the store holds that device's single row
C8_Witness ==
  \E cls \in Classes :
    /\ inflight = {}
    /\ Len(history[cls]) = 2
    /\ history[cls][1][KeyColumn(cls)] = history[cls][2][KeyColumn(cls)]
    /\ upserted[cls] = {history[cls][1][KeyColumn(cls)]}
    /\ Cardinality(current[cls]) = 1

\* C9: the telemetry fields and timestamp of a device's current-state row
\* are those of the record whose upsert was committed last for that device.
C9_RowIsLastUpsert ==
  \A cls \in Classes : \A d \in upserted[cls] :
    \A r \in RowsOf(cls, d) :
      Telemetry(cls, r) = Telemetry(cls, lastUpsert[cls][d][1])

\* C9 witness: two applies of different readings for one device ran
\* concurrently and have both finished
C9_Witness ==
  \E cls \in Classes : \E d \in Devices :
    /\ inflight = {}
    /\ \/ Cardinality({j \in JobsIn(cls, "completed") : DeviceId(cls, queue[cls][j].data) = d}) = 2
       \/ Cardinality({c \in CallsAt("done") : calls[c].cls = cls /\ calls[c].result = "ok"
                                                /\ DeviceId(cls, calls[c].data) = d}) = 2
    /\ \E i, k \in 1..Len(history[cls]) :
         /\ history[cls][i][KeyColumn(cls)] = d /\ history[cls][k][KeyColumn(cls)] = d
         /\ history[cls][i].timestamp # history[cls][k].timestamp
         /\ \E r \in RowsOf(cls, d) : r.timestamp = history[cls][i].timestamp /\ i < k

\* C10: every step leaves the rows already in a history store in place
\* and unchanged; the store only grows at its end.
C10_HistoryAppendOnly ==
  [][\A cls \in Classes :
       /\ Len(history'[cls]) >= Len(history[cls])
       /\ \A i \in 1..Len(history[cls]) : history'[cls][i] = history[cls][i]]_vars

\* C10 witness: a history store holds two rows of one device
C10_Witness ==
  \E cls \in Classes :
    /\ Len(history[cls]) >= 2
    /\ history[cls][1][KeyColumn(cls)] = history[cls][2][KeyColumn(cls)]
    /\ history[cls][1].timestamp # history[cls][2].timestamp

\* C11 as claimed: when the invalidation of a successful dual write for
\* device d finishes with no cache fault (queue processor or direct call,
\* either class), the cache holds neither a live current-state entry of
\* that class nor a live performance entry for d.
C11_DualWriteInvalidatesBoth ==
  [][LET Gone(k) == cache'[k] = Miss \/ now' >= cache'[k][1].expires
     IN  /\ \A cls \in Classes : \A j \in JobIds(cls) :
              (queue[cls][j].pc = "write" /\ queue'[cls][j].pc = "return"
                 /\ faults' = faults)
                => /\ Gone(CurrentCacheKey(cls, DeviceId(cls, queue[cls][j].data)))
                   /\ Gone(PerformanceCacheKey(DeviceId(cls, queue[cls][j].data)))
         /\ \A c \in 1..Len(calls) :
              (calls[c].pc = "invalidate" /\ calls'[c].result = "ok")
                => /\ Gone(CurrentCacheKey(calls[c].cls, DeviceId(calls[c].cls, calls[c].data)))
                   /\ Gone(PerformanceCacheKey(DeviceId(calls[c].cls, calls[c].data)))]_vars

\* what the read returns with the cache disabled, were it made now
Uncached(kind, d) ==
  IF kind = "performance"
  THEN LET result == Query(history["vehicle"], history["meter"], d, Last24Hours)
       IN  IF NoData(result) THEN [outcome |-> "NotFound", value |-> Null]
           ELSE [outcome |-> "ok", value |-> <<AnalyticsResponse(d, result)>>]
  ELSE [outcome |-> "ok", value |-> FindOne(kind, d)]

\* C12 as claimed, for the reads answered from the cache while no ingest is
\* under way: such a read returns the outcome and the value that the same
\* read returns with the cache disabled.
C12_CacheOnEqualsCacheOff ==
  [][\A r \in 1..Len(reads) :
       (reads[r].pc = "get" /\ reads'[r].pc = "done" /\ reads'[r].cached /\ Quiet)
         => /\ reads'[r].outcome = Uncached(reads[r].kind, reads[r].id).outcome
            /\ reads'[r].value = Uncached(reads[r].kind, reads[r].id).value]_vars

\* C13 as claimed: while no ingest is under way (the invalidation of the
\* last write has completed), every live cache entry of a device holds what
\* storage holds: a current-state entry the current-state row, a
\* performance entry the response computed from the history now.
C13_CacheConsistentAfterInvalidation ==
  Quiet =>
    \A d \in Devices :
      /\ \A cls \in Classes :
           Cached(CurrentCacheKey(cls, d)) # Miss
             => Cached(CurrentCacheKey(cls, d)) = FindOne(cls, d)
      /\ Cached(PerformanceCacheKey(d)) # Miss
           => LET result == Query(history["vehicle"], history["meter"], d, Last24Hours)
              IN  /\ ~NoData(result)
                  /\ Cached(PerformanceCacheKey(d)) = <<CachedResponse(d, result)>>

\* C14 as claimed: only a storage fault fails a read or an ingest.  A read
\* ends in an error only from its storage query, a direct call returns an
\* error only from one of its two writes, and a queue job is handed back as
\* failed only when one of its two writes failed.
C14_CacheFaultNeverFailsPrimaryPath ==
  [][/\ \A r \in 1..Len(reads) :
          (reads[r].outcome = "pending" /\ reads'[r].outcome = "error")
            => reads[r].pc = "query"
     /\ \A c \in 1..Len(calls) :
          (calls[c].result = "pending" /\ calls'[c].result = "error")
            => calls[c].pc \in {"upsert", "insert"}
     /\ \A cls \in Classes : \A j \in JobIds(cls) :
          (queue[cls][j].state = "active" /\ queue'[cls][j].state \in {"delayed", "failed"})
            => (queue[cls][j].up = "fail" \/ queue[cls][j].hi = "fail")]_vars

\* the records of a class in the order they were submitted
Submitted(cls) ==
  IF USE_QUEUE THEN [j \in JobIds(cls) |-> queue[cls][j].data]
  ELSE LET Pick(c) == c.cls = cls
           own == SelectSeq(calls, Pick)
       IN  [i \in 1..Len(own) |-> own[i].data]

\* C15 as claimed: once all submitted work has finished, the stores hold
\* what the synchronous dual write of the records in submission order
\* leaves, whatever the queue flag: each device's current-state row has the
\* values of the record submitted last for it, and the history holds each
\* submitted record as often as it was submitted.
C15_QueueFlagSameResult ==
  Quiet =>
    \A cls \in Classes :
      LET sub == Submitted(cls)
          of(d) == {i \in 1..Len(sub) : DeviceId(cls, sub[i]) = d}
          last(d) == CHOOSE i \in of(d) : \A k \in of(d) : k <= i
      IN  /\ \A d \in Devices :
               IF of(d) = {} THEN RowsOf(cls, d) = {}
               ELSE /\ Cardinality(RowsOf(cls, d)) = 1
                    /\ \A r \in RowsOf(cls, d) :
                         Telemetry(cls, r) = Telemetry(cls, sub[last(d)])
          /\ Len(history[cls]) = Len(sub)
          /\ \A dto \in Dto(cls) :
               Cardinality({i \in 1..Len(sub) : sub[i] = dto})
                 = Cardinality({i \in 1..Len(history[cls]) :
                                  /\ history[cls][i][KeyColumn(cls)] = DeviceId(cls, dto)
                                  /\ Telemetry(cls, history[cls][i]) = Telemetry(cls, dto)})

\* the (vehicle row, meter row) pairs of device d that are at most 30s
\* apart, the vehicle row not older than since
Correlated(d, since) ==
  LET vh == history["vehicle"]
      mh == history["meter"]
  IN  {p \in (1..Len(vh)) \X (1..Len(mh)) :
         /\ vh[p[1]].vehicleId = d /\ mh[p[2]].meterId = d
         /\ vh[p[1]].timestamp - mh[p[2]].timestamp <= 30000
         /\ mh[p[2]].timestamp - vh[p[1]].timestamp <= 30000
         /\ vh[p[1]].timestamp >= since}

\* a performance read r whose query has just produced a response
Answered(r) == reads[r].kind = "performance" /\ reads[r].pc = "query" /\ reads'[r].value # Null

C17_FanOutEveryPairCounts ==
  [][\A r \in 1..Len(reads) :
       Answered(r) =>
         LET P == Correlated(reads[r].id, reads[r].last24Hours)
             vh == history["vehicle"]
             mh == history["meter"]
             ac == SumOver(1..Len(mh), [k \in 1..Len(mh) |->
                     mh[k].kwhConsumedAc * Cardinality({p \in P : p[2] = k})])
             dc == SumOver(1..Len(vh), [i \in 1..Len(vh) |->
                     vh[i].kwhDeliveredDc * Cardinality({p \in P : p[1] = i})])
         IN  /\ reads'[r].value[1].totalEnergyConsumedAc = 100 * ac
             /\ reads'[r].value[1].totalEnergyDeliveredDc = 100 * dc]_vars

\* C17 witness: one vehicle row (9 kWh) lies within 30s of two meter rows
\* (10 and 7 kWh) and the read returned 17.00 and 18.00
C17_Witness ==
  /\ Len(history["vehicle"]) = 1 /\ Len(history["meter"]) = 2
  /\ Cardinality(Correlated("D1", Last24Hours)) = 2
  /\ \E r \in 1..Len(reads) :
       /\ reads[r].id = "D1" /\ reads[r].outcome = "ok"
       /\ reads[r].value[1].totalEnergyConsumedAc = 1700
       /\ reads[r].value[1].totalEnergyDeliveredDc = 1800

\* C18: the efficiencyRatio of a response is 0 when the source sum is 0,
\* else the 2-decimal value nearest to deliveredSum / sourceSum * 100 taken
\* from the unrounded sums (a half goes upwards); one pair of a 10 kWh meter
\* row and a 9 kWh, 28 degree vehicle row 5s apart gives 10.00, 9.00, 90.00
\* and 28.00.  Numbers are in hundredths.
C18_EfficiencyRatio ==
  [][\A r \in 1..Len(reads) :
       Answered(r) =>
         LET P == Correlated(reads[r].id, reads[r].last24Hours)
             vh == history["vehicle"]
             mh == history["meter"]
             sourceSum == SumOver(P, [p \in P |-> mh[p[2]].kwhConsumedAc])
             deliveredSum == SumOver(P, [p \in P |-> vh[p[1]].kwhDeliveredDc])
             e == reads'[r].value[1].efficiencyRatio
         IN  /\ P # {}
             /\ sourceSum = 0 => e = 0
             /\ sourceSum > 0 =>
                  /\ (2 * e - 1) * sourceSum <= 2 * 10000 * deliveredSum
                  /\ 2 * 10000 * deliveredSum < (2 * e + 1) * sourceSum
             /\ (\E p \in P :
                   /\ P = {p}
                   /\ mh[p[2]].kwhConsumedAc = 10 /\ vh[p[1]].kwhDeliveredDc = 9
                   /\ vh[p[1]].batteryTemp = 28
                   /\ vh[p[1]].timestamp - mh[p[2]].timestamp = 5000)
                  => /\ reads'[r].value[1].totalEnergyConsumedAc = 1000
                     /\ reads'[r].value[1].totalEnergyDeliveredDc = 900
                     /\ e = 9000
                     /\ reads'[r].value[1].avgBatteryTemp = 2800]_vars

\* C18 witness: the 10 kWh / 9 kWh / 28 degree scenario has been queried
\* and returned 10.00, 9.00, 90.00, 28.00
C18_Witness ==
  /\ Len(history["vehicle"]) = 1 /\ Len(history["meter"]) = 1
  /\ history["meter"][1].kwhConsumedAc = 10 /\ history["vehicle"][1].kwhDeliveredDc = 9
  /\ \E r \in 1..Len(reads) :
       /\ reads[r].outcome = "ok"
       /\ reads[r].value[1].totalEnergyConsumedAc = 1000
       /\ reads[r].value[1].totalEnergyDeliveredDc = 900
       /\ reads[r].value[1].efficiencyRatio = 9000
       /\ reads[r].value[1].avgBatteryTemp = 2800

C20_NotFoundApartFromStorageFault ==
  [][\A r \in 1..Len(reads) :
       (reads[r].kind = "performance" /\ reads[r].pc = "query" /\ reads'[r].pc # "query")
         => /\ faults' > faults => reads'[r].outcome = "error"
            /\ reads'[r].outcome = "NotFound"
                 => /\ faults' = faults
                    /\ Correlated(reads[r].id, reads[r].last24Hours) = {}
            /\ reads'[r].outcome = "error" => faults' > faults]_vars

\* C20 witness: a query that would have matched no pair met a storage
\* fault, and the read ended in an internal error
C20_Witness ==
  \E r \in 1..Len(reads) :
    /\ reads[r].kind = "performance" /\ reads[r].outcome = "error"
    /\ faults = 1
    /\ Correlated(reads[r].id, reads[r].last24Hours) = {}
    /\ Len(history["vehicle"]) >= 1

\* C21 as claimed: the avgBatteryTemp of a response is the mean of the
\* battery temperature over the vehicle rows of the device that are matched
\* by at least one meter row in the window, each such row counted once
\* (rounded to 2 decimals, in hundredths).
C21_MeanOverMatchedVehicleRows ==
  [][\A r \in 1..Len(reads) :
       Answered(r) =>
         LET P == Correlated(reads[r].id, reads[r].last24Hours)
             vh == history["vehicle"]
             matched == {i \in 1..Len(vh) : \E p \in P : p[1] = i}
             sum == SumOver(matched, [i \in matched |-> vh[i].batteryTemp])
         IN  reads'[r].value[1].avgBatteryTemp = Round(sum * 100, Cardinality(matched))]_vars

\* C22 as claimed: with no failing apply, every enqueue on a queue raises
\* the waiting counter getQueueStats shows for that queue by one, and under
\* fair scheduling the queue ends with that counter at 0 and its completed
\* counter at the number N of jobs enqueued.
C22_BacklogRisesThenDrains ==
  /\ [][\A cls \in Classes :
          Len(queue'[cls]) > Len(queue[cls])
            => QueueStats(cls)'.waiting = QueueStats(cls).waiting + 1]_vars
  /\ \A cls \in Classes :
       <>[](QueueStats(cls).waiting = 0 /\ QueueStats(cls).completed = Len(queue[cls]))

\* C23 as claimed: a step of a getQueueStats read changes no queue, worker
\* or store state, and the waiting, active, completed and failed counters it
\* receives for a queue are the numbers of jobs of that queue that are
\* waiting for a worker, active, completed and failed at that moment.
C23_StatsReadOnlyAndExact ==
  [][\A r \in 1..Len(reads') :
       (reads'[r].kind = "stats" /\ (r > Len(reads) \/ reads'[r] # reads[r]))
         => /\ UNCHANGED <<now, queue, wait, workers, inflight, calls, current,
                           history, cache, upserted, lastUpsert>>
            /\ (r <= Len(reads) /\ Len(reads'[r].value) > Len(reads[r].value))
                 => LET e == reads'[r].value[Len(reads'[r].value)]
                    IN  /\ e.stats.waiting = Cardinality(JobsIn(e.queue, "waiting"))
                        /\ e.stats.active = Cardinality(JobsIn(e.queue, "active"))
                        /\ e.stats.completed = Cardinality(JobsIn(e.queue, "completed"))
                        /\ e.stats.failed = Cardinality(JobsIn(e.queue, "failed"))]_vars

\* C24: a job on the queue of a class carries a record of that class and
\* the stores of a class hold rows of that class only; a step that changes
\* the queue, the workers or the stores of one class leaves those of the
\* other class unchanged; and the worker slots free for a class are the 10
\* slots less its own active jobs, so a waiting job is fetched whenever
\* fewer than 10 jobs of its own class are active, whatever the other
\* queue holds.
C24_QueuesIndependent ==
  /\ [](\A cls \in Classes :
          /\ \A j \in JobIds(cls) : KeyColumn(cls) \in DOMAIN queue[cls][j].data
          /\ \A r \in current[cls] : KeyColumn(cls) \in DOMAIN r
          /\ \A i \in 1..Len(history[cls]) : KeyColumn(cls) \in DOMAIN history[cls][i]
          /\ Cardinality(FreeSlots(cls)) = Concurrency - Cardinality(JobsIn(cls, "active"))
          /\ (wait[cls] # <<>> /\ Cardinality(JobsIn(cls, "active")) < Concurrency)
               => ENABLED Dequeue(cls))
  /\ [][\A cls \in Classes : \A other \in Classes \ {cls} :
          (\/ queue'[cls] # queue[cls] \/ wait'[cls] # wait[cls]
           \/ workers'[cls] # workers[cls]
           \/ current'[cls] # current[cls] \/ history'[cls] # history[cls])
            => /\ queue'[other] = queue[other] /\ wait'[other] = wait[other]
               /\ workers'[other] = workers[other]
               /\ current'[other] = current[other]
               /\ history'[other] = history[other]]_vars

\* C24 witness: the job of one class has exhausted its attempts and is
\* failed with nothing in its history, and the job of the other class was
\* applied to its own stores before the first was given up
C24_Witness ==
  \E cls \in Classes : \E other \in Classes \ {cls} :
    /\ JobsIn(cls, "failed") = {1}
    /\ JobsIn(other, "completed") = {1}
    /\ queue[other][1].finishedOn < queue[cls][1].finishedOn
    /\ Len(history[other]) = 1 /\ Cardinality(current[other]) = 1
    /\ history[cls] = <<>>

\* C25: in queue mode a step that accepts an ingest call appends exactly
\* one waiting, not yet attempted job carrying a record of the call's class
\* to the queue of that class, touches no other job, no store, no cache
\* entry and issues no write; the response has mode 'queued' and a jobId
\* that identifies that job alone on its queue; no direct call is ever
\* started; and a store changes only when a write that a worker issued
\* for a job it had fetched commits.
C25_QueuedIngestOnlyEnqueues ==
  [][USE_QUEUE =>
       /\ \A cls \in Classes :
            Len(queue'[cls]) > Len(queue[cls]) =>
              LET j == Len(queue'[cls])
                  job == queue'[cls][j]
              IN  /\ j = Len(queue[cls]) + 1
                  /\ \A k \in JobIds(cls) : queue'[cls][k] = queue[cls][k]
                  /\ \A other \in Classes \ {cls} : queue'[other] = queue[other]
                  /\ job.data \in Dto(cls)
                  /\ job.state = "waiting" /\ job.attemptsMade = 0
                  /\ QueuedResponse(cls, job).mode = "queued"
                  /\ {k \in 1..j : queue'[cls][k].id = QueuedResponse(cls, job).jobId} = {j}
                  /\ UNCHANGED <<current, history, cache, inflight, workers>>
       /\ calls' = <<>>
       /\ (current' # current \/ history' # history)
            => \E w \in inflight \ inflight' :
                 /\ w.job \in JobIds(w.cls)
                 /\ queue[w.cls][w.job].attemptsMade >= w.att
                 /\ \A cls \in Classes : Len(queue'[cls]) = Len(queue[cls])]_vars

\* C25 witness: in queue mode two calls for one device have returned; the
\* first job has been applied by a worker, the second is still waiting and
\* the stores hold the first record only
C25_Witness ==
  /\ USE_QUEUE
  /\ \E cls \in Classes :
       /\ Len(queue[cls]) = 2
       /\ queue[cls][1].state = "completed" /\ queue[cls][2].state = "waiting"
       /\ queue[cls][1].data # queue[cls][2].data
       /\ DeviceId(cls, queue[cls][1].data) = DeviceId(cls, queue[cls][2].data)
       /\ Len(history[cls]) = 1
       /\ \A r \in current[cls] : Telemetry(cls, r) = Telemetry(cls, queue[cls][1].data)

\* C26: in direct mode no job is ever enqueued and no worker write issued;
\* a call is pending until its writes are over; it returns success only
\* after its current-state upsert and then its history insert have both
\* been committed (the history grows by the call's record at that step),
\* and a call one of whose two writes is rejected returns failure at that
\* step and never success.
C26_DirectSuccessIffBothWrites ==
  [][~USE_QUEUE =>
       /\ \A cls \in Classes : queue'[cls] = <<>> /\ wait'[cls] = <<>>
       /\ inflight' = {}
       /\ \A c \in 1..Len(calls) :
            LET call == calls[c]
                after == calls'[c]
                cls == call.cls
            IN  /\ call.pc = "upsert" =>
                     \/ after = call
                     \/ /\ after.pc = "insert" /\ after.result = "pending"
                        /\ \E r \in current'[cls] :
                             /\ r[KeyColumn(cls)] = DeviceId(cls, call.data)
                             /\ Telemetry(cls, r) = Telemetry(cls, call.data)
                     \/ /\ after.pc = "done" /\ after.result = "error"
                        /\ faults' = faults + 1
                        /\ current' = current /\ history' = history
                /\ call.pc = "insert" =>
                     \/ after = call
                     \/ /\ after.pc \in {"invalidate", "done"}
                        /\ after.result = IF after.pc = "done" THEN "ok" ELSE "pending"
                        /\ after.pc = "done" <=> ~USE_CACHE
                        /\ Len(history'[cls]) = Len(history[cls]) + 1
                        /\ Telemetry(cls, history'[cls][Len(history'[cls])])
                             = Telemetry(cls, call.data)
                     \/ /\ after.pc = "done" /\ after.result = "error"
                        /\ faults' = faults + 1
                        /\ current' = current /\ history' = history
                /\ (after.result = "ok" /\ call.result # "ok")
                     => call.pc \in {"insert", "invalidate"}
                /\ call.result # "pending" => after = call
                /\ after.result # "pending" <=> after.pc = "done"]_vars

\* C26 witness: in direct mode one call has returned failure after its
\* upsert was committed and its history insert rejected, and another call
\* has returned success with both of its rows stored
C26_Witness ==
  /\ ~USE_QUEUE
  /\ \E c, k \in 1..Len(calls) :
       /\ calls[c].result = "error" /\ calls[k].result = "ok"
       /\ calls[c].cls # calls[k].cls
       /\ history[calls[c].cls] = <<>> /\ Cardinality(current[calls[c].cls]) = 1
       /\ Len(history[calls[k].cls]) = 1 /\ Cardinality(current[calls[k].cls]) = 1

\* C27: after a history append for device d with timestamp t, a range scan
\* for d over any time range containing t returns the appended row exactly
\* once, whatever other rows the store holds: every scan returns no row
\* twice and returns every stored row of its device that lies in its range
C27_ScanReturnsAppendedRowOnce ==
  [][ (Len(reads') = Len(reads) + 1 /\ reads'[Len(reads')].kind = "history") =>
        LET r == reads'[Len(reads')]
            returned == {r.value[k] : k \in 1..Len(r.value)}
        IN  /\ Cardinality(returned) = Len(r.value)
            /\ \A i \in 1..Len(history["vehicle"]) :
                  LET row == history["vehicle"][i]
                  IN  ( /\ row.vehicleId = r.id
                        /\ r.startDate <= row.timestamp
                        /\ row.timestamp <= r.endDate ) => row \in returned ]_vars

\* C28: a scan over a range spanning a partition boundary returns rows of
\* both partitions merged, ordered descending by timestamp, and never a row
\* of another device or outside the requested range: the rows returned are
\* stored rows of the device within the range, in descending order of
\* timestamp, and every partition holding such a row has one returned
C28_ScanMergesPartitionsDescending ==
  [][ (Len(reads') = Len(reads) + 1 /\ reads'[Len(reads')].kind = "history") =>
        LET r == reads'[Len(reads')]
            v == r.value
            stored == {history["vehicle"][i] : i \in 1..Len(history["vehicle"])}
            inRange == {row \in stored : /\ row.vehicleId = r.id
                                         /\ r.startDate <= row.timestamp
                                         /\ row.timestamp <= r.endDate}
        IN  /\ \A k \in 1..Len(v) - 1 : v[k].timestamp >= v[k + 1].timestamp
            /\ \A k \in 1..Len(v) : v[k] \in inRange
            /\ \A p \in 1..Len(Partitions) :
                  (\E row \in inRange : InPartition(Partitions[p], row.timestamp))
                  => \E k \in 1..Len(v) : InPartition(Partitions[p], v[k].timestamp) ]_vars

\* C29: a record that violates ingress validation (id missing or empty,
\* energy below 0, voltage outside 0..500, state of charge outside 0..100,
\* battery temperature outside -20..80, or a timestamp that cannot be
\* parsed) is rejected before the core, with no job enqueued and no store
\* written; every record in a queue or a store satisfies these ranges and
\* carries an instant
C29_InvalidRecordsNeverReachCore ==
  /\ [](\A cls \in Classes :
          LET held == {queue[cls][j].data : j \in JobIds(cls)}
                      \cup {[c \in {KeyColumn(cls)} \cup TelemetryColumns(cls) |-> r[c]] :
                              r \in current[cls]}
                      \cup {[c \in {KeyColumn(cls)} \cup TelemetryColumns(cls) |->
                               history[cls][i][c]] : i \in 1..Len(history[cls])}
          IN  \A data \in held :
                /\ DeviceId(cls, data) # ""
                /\ data.timestamp # InvalidDate
                /\ IF cls = "meter"
                   THEN /\ data.kwhConsumedAc >= 0
                        /\ data.voltage >= 0 /\ data.voltage <= 500
                   ELSE /\ data.kwhDeliveredDc >= 0
                        /\ data.soc >= 0 /\ data.soc <= 100
                        /\ data.batteryTemp >= 0 - 20 /\ data.batteryTemp <= 80)
  /\ [][\A cls \in Classes : \A body \in Bodies(cls) :
          LET given(c) == body[c] # Missing
              violates ==
                \/ \E c \in DOMAIN body : ~given(c)
                \/ body[KeyColumn(cls)] = <<"">>
                \/ NewDate(body.timestamp[1]) = InvalidDate
                \/ IF cls = "meter"
                   THEN \/ body.kwhConsumedAc[1] < 0
                        \/ body.voltage[1] < 0 \/ body.voltage[1] > 500
                   ELSE \/ body.kwhDeliveredDc[1] < 0
                        \/ body.soc[1] < 0 \/ body.soc[1] > 100
                        \/ body.batteryTemp[1] < 0 - 20 \/ body.batteryTemp[1] > 80
          IN  (violates /\ Post(cls, body)) =>
                /\ queue' = queue /\ wait' = wait
                /\ current' = current /\ history' = history
                /\ calls' = Append(calls, [cls |-> cls, body |-> body, pc |-> "done",
                                           result |-> BadRequest])]_vars

C32_UpsertHasNoTimestampGuard ==
  /\ [](\A cls \in Classes : \A j \in JobsIn(cls, "completed") :
          \E i \in 1..Len(history[cls]) :
            \A c \in DOMAIN queue[cls][j].data : history[cls][i][c] = queue[cls][j].data[c])
  /\ [][\A w \in inflight :
          LET cls == w.cls
              data == queue[cls][w.job].data
              d == DeviceId(cls, data)
          IN  ( /\ UpsertCommit(w)
                /\ \E r \in RowsOf(cls, d) : r.timestamp > data.timestamp ) =>
                \A r \in RowsOf(cls, d)' : r.timestamp = data.timestamp ]_vars

\* two readings of D1 were enqueued older first, both jobs completed at
\* their first attempt, the older reading's upsert came last and is the
\* current-state row, and history holds both readings
C32_Witness ==
  \E cls \in Classes :
    /\ Len(queue[cls]) = 2
    /\ \A j \in 1..2 : /\ queue[cls][j].state = "completed"
                        /\ queue[cls][j].attemptsMade = 1
                        /\ DeviceId(cls, queue[cls][j].data) = "D1"
    /\ queue[cls][1].data.timestamp < queue[cls][2].data.timestamp
    /\ lastUpsert[cls]["D1"] = <<queue[cls][1].data>>
    /\ \A r \in RowsOf(cls, "D1") : r.timestamp = queue[cls][1].data.timestamp
    /\ \A j \in 1..2 : \E i \in 1..Len(history[cls]) :
          history[cls][i].timestamp = queue[cls][j].data.timestamp

\* C33: whenever no write is under way, each device with a current-state
\* row also has at least one history row carrying the same telemetry fields
\* and timestamp, a job that exhausted its retries and a direct-mode ingest
\* that returned failure included
C33_CurrentRowHasHistoryRow ==
  Quiet =>
    \A cls \in Classes : \A r \in current[cls] :
      \E i \in 1..Len(history[cls]) :
        /\ history[cls][i][KeyColumn(cls)] = r[KeyColumn(cls)]
        /\ Telemetry(cls, history[cls][i]) = Telemetry(cls, r)

\* the history rows that carry the reading of job j
JobRows(cls, j) ==
  {i \in 1..Len(history[cls]) :
     \A c \in DOMAIN queue[cls][j].data : history[cls][i][c] = queue[cls][j].data[c]}

\* the attempts of job j started so far
Started(cls, j) ==
  queue[cls][j].attemptsMade + (IF queue[cls][j].state = "active" THEN 1 ELSE 0)

\* C34: each queue job appends between 0 and 3 history rows over its life,
\* at most one per attempt and at most 3 attempts; a completed job has
\* appended at least one; and the history of a class grows by exactly one
\* row at each successful history insert of an attempt and at no other
\* step, so its rows are the successful appends of all attempts of all jobs
C34_RowsPerJob ==
  /\ [](\A cls \in Classes : \A j \in JobIds(cls) :
          /\ Started(cls, j) <= 3
          /\ queue[cls][j].state = "completed" => JobRows(cls, j) # {}
          /\ (\A k \in JobIds(cls) : queue[cls][k].data = queue[cls][j].data => k = j)
                => /\ Cardinality(JobRows(cls, j)) <= Started(cls, j)
                   /\ Cardinality(JobRows(cls, j)) <= 3)
  /\ [](\A cls \in Classes :
          Len(history[cls]) <= SumOver(JobIds(cls), [j \in JobIds(cls) |-> Started(cls, j)]))
  /\ [][\A cls \in Classes :
          /\ Len(history'[cls]) \in {Len(history[cls]), Len(history[cls]) + 1}
          /\ Len(history'[cls]) = Len(history[cls]) + 1
                <=> \E w \in inflight : w.cls = cls /\ InsertCommit(w)]_vars

\* a job that used its 3 attempts appended a history row at each of them
C34_Witness ==
  \E cls \in Classes : \E j \in JobsIn(cls, "failed") :
    /\ Len(queue[cls]) = 1
    /\ queue[cls][j].attemptsMade = 3
    /\ Cardinality(JobRows(cls, j)) = 3

\* C35: job accounting per queue: each enqueued job is counted in exactly
\* one of waiting, delayed, active, completed, failed, and while no job was
\* discarded these five counts sum to the number of jobs enqueued; at most
\* 10 jobs are active on a queue at once; a completed or failed job never
\* becomes waiting or active again
C35_JobAccounting ==
  /\ [](\A cls \in Classes :
          LET counts == GetJobCounts(cls)
          IN  JobsIn(cls, "removed") = {} =>
                counts.waiting + counts.delayed + counts.active
                  + counts.completed + counts.failed = Len(queue[cls]))
  /\ [](\A cls \in Classes : Cardinality(JobsIn(cls, "active")) <= Concurrency)
  /\ [][\A cls \in Classes : \A j \in JobIds(cls) :
          queue[cls][j].state \in {"completed", "failed"} =>
            queue'[cls][j].state \notin {"waiting", "active"}]_vars

\* C36: in a worker's attempt the cache invalidation is issued only after
\* both writes of that attempt succeeded and before the job is reported
\* completed; an attempt in which a write failed performs no invalidation;
\* an invalidation, failing ones included, neither fails the attempt nor
\* triggers a retry: the job goes on to completed
C36_InvalidationAfterWrites ==
  /\ [][\A cls \in Classes : \A j \in JobIds(cls) :
          LET job == queue[cls][j]
              after == queue'[cls][j]
          IN  /\ (job.pc # "return" /\ after.pc = "return") =>
                    /\ job.state = "active" /\ Resolved(job)
                    /\ after.state = "active"
              /\ (job.state = "active" /\ after.state = "completed") => job.pc = "return"
              /\ Rejected(job) => after.pc # "return"
              /\ job.pc = "return" =>
                    /\ after.state \in {"active", "completed"}
                    /\ after.attemptsMade = job.attemptsMade
                         + (IF after.state = "completed" THEN 1 ELSE 0)
                    /\ after.backoffs = job.backoffs]_vars
  /\ [][\A cls \in Classes : \A j \in JobIds(cls) :
          \A failed \in SUBSET InvalidationKeys(cls, DeviceId(cls, queue[cls][j].data)) :
            (failed # {} /\ InvalidateCache(cls, j, failed)) =>
               /\ queue'[cls][j].state = "active"
               /\ Resolved(queue'[cls][j])
               /\ queue'[cls][j].pc = "return" ]_vars
  /\ \A cls \in Classes : \A j \in 1..MaxRetryJobs :
        (j \in JobIds(cls) /\ queue[cls][j].pc = "return")
          ~> (j \in JobIds(cls) /\ queue[cls][j].state \in {"completed", "removed"})

\* the only job was completed at its first attempt although the deletion
\* of a cache key failed in it
C36_Witness ==
  \E cls \in Classes :
    /\ Len(queue[cls]) = 1 /\ Accepted = 1
    /\ queue[cls][1].state = "completed"
    /\ queue[cls][1].attemptsMade = 1
    /\ faults = 1

\* C37: negative results are never cached: a current-state lookup that
\* finds no row and a performance query that ends NotFound write nothing to
\* the cache, no cache entry holds a negative result, a device without a
\* row (a vehicle without a correlated pair) has no entry, and so a lookup
\* that reaches storage once the row exists returns that row
C37_NegativeNotCached ==
  /\ [](\A k \in CacheKeys : cache[k] # Miss => cache[k][1].value # Null)
  /\ [](\A cls \in Classes : \A d \in Devices :
          RowsOf(cls, d) = {} => cache[CurrentCacheKey(cls, d)] = Miss)
  /\ [](\A d \in Devices :
          JoinedPairs(history["vehicle"], history["meter"], d, 0 - Day) = {}
            => cache[PerformanceCacheKey(d)] = Miss)
  /\ [][\A r \in ReadsAt("query") :
          LET read == reads[r]
              after == reads'[r]
          IN  /\ ( /\ after.pc = "done"
                   /\ \/ after.outcome = "NotFound"
                      \/ after.outcome = "ok" /\ after.value = Null )
                    => cache' = cache
              /\ ( /\ read.kind \in Classes
                   /\ RowsOf(read.kind, read.id) # {}
                   /\ after # read /\ after.outcome # QueryError )
                    => /\ after.value # Null
                       /\ after.value[1] \in RowsOf(read.kind, read.id)]_vars

\* with the cache on, a lookup found no row of D1 and returned null, and a
\* later lookup asked storage and returned the row written in between
C37_Witness ==
  /\ USE_CACHE
  /\ Len(reads) = 2
  /\ reads[1].kind \in Classes /\ reads[2].kind = reads[1].kind
  /\ reads[1].pc = "done" /\ reads[1].outcome = "ok" /\ reads[1].value = Null
  /\ reads[2].pc = "done" /\ reads[2].outcome = "ok" /\ reads[2].value # Null
  /\ ~reads[2].cached

\* the rows of a history table that belong to devices other than d
OtherRows(cls, log, d) ==
  LET other(row) == row[KeyColumn(cls)] # d IN SelectSeq(log, other)

\* everything a dual write for device d of class cls must leave alone
Frame(cls, d) ==
  /\ \A e \in Devices \ {d} : RowsOf(cls, e)' = RowsOf(cls, e)
  /\ OtherRows(cls, history'[cls], d) = OtherRows(cls, history[cls], d)
  /\ \A k \in CacheKeys : k[2] # d => cache'[k] = cache[k]
  /\ \A o \in Classes \ {cls} : current'[o] = current[o] /\ history'[o] = history[o]

\* C38: a dual write for device d of one class, in queue mode or direct
\* mode, changes nothing else: not the current rows, history rows and
\* cache entries of any other device id, and not the current and history
\* stores of the other class, those of the same id d included
C38_DualWriteFrame ==
  [][ /\ \A w \in inflight :
            (UpsertCommit(w) \/ InsertCommit(w))
              => Frame(w.cls, DeviceId(w.cls, queue[w.cls][w.job].data))
      /\ \A cls \in Classes : \A j \in JobsIn(cls, "active") :
            InvalidateCache(cls, j, {})
              => Frame(cls, DeviceId(cls, queue[cls][j].data))
      /\ \A c \in 1..Len(calls) :
            (DirectUpsert(c) \/ DirectInsert(c) \/ DirectInvalidate(c, {}))
              => Frame(calls[c].cls, DeviceId(calls[c].cls, calls[c].data)) ]_vars

\* a record of D1 was ingested while another device's current row, history
\* row and cache entry existed, and the other class held a row of D1
C38_Witness ==
  \E cls \in Classes :
    /\ RowsOf(cls, "D1") # {} /\ RowsOf(cls, "D2") # {}
    /\ Len(history[cls]) >= 2
    /\ history[cls][1][KeyColumn(cls)] = "D2"
    /\ history[cls][Len(history[cls])][KeyColumn(cls)] = "D1"
    /\ cache[CurrentCacheKey(cls, "D2")] # Miss
    /\ cache[CurrentCacheKey(cls, "D1")] = Miss
    /\ \E o \in Classes \ {cls} : RowsOf(o, "D1") # {}
    /\ Quiet

\* C39: every row that contributes to performance(d) lies in the trailing
\* window: each vehicle row of a counted pair has device id d and a
\* timestamp between now - 24h and now, and each meter row of a counted
\* pair has a timestamp in the same window
C39_ContributingRowsInWindow ==
  [][\A r \in ReadsAt("query") :
       (reads[r].kind = "performance" /\ PerformanceQuery(r)) =>
         \A p \in JoinedPairs(history["vehicle"], history["meter"], reads[r].id,
                               reads[r].last24Hours) :
           LET v == history["vehicle"][p[1]]
               m == history["meter"][p[2]]
           IN  /\ v.vehicleId = reads[r].id
               /\ now - Day <= v.timestamp /\ v.timestamp <= now
               /\ now - Day <= m.timestamp /\ m.timestamp <= now]_vars

\* the counters getQueueStats returns per queue
Counters == {"waiting", "active", "completed", "failed"}

\* C40: with USE_QUEUE off getQueueStats returns 0 for waiting, active,
\* completed and failed of both queues without asking either queue; with
\* USE_QUEUE on each counter it returns for a queue is that counter of the
\* queue's own getJobCounts, and a counter the queue does not report is
\* returned as 0
C40_QueueStatsByFlag ==
  /\ [](~USE_QUEUE =>
          \A r \in 1..Len(reads) : reads[r].kind = "stats" =>
            /\ reads[r].pc = "done" /\ reads[r].outcome = "ok"
            /\ {reads[r].value[i].queue : i \in 1..Len(reads[r].value)} = Classes
            /\ \A i \in 1..Len(reads[r].value) : \A c \in Counters :
                  reads[r].value[i].stats[c] = 0)
  /\ [][\A r \in 1..Len(reads) : \A cls \in Classes :
          JobCountsResolve(r, cls) =>
            /\ USE_QUEUE
            /\ LET e == reads'[r].value[Len(reads'[r].value)]
               IN  /\ e.queue = cls
                   /\ \A c \in Counters : e.stats[c] = GetJobCounts(cls)[c]]_vars
  /\ [](\A S \in SUBSET Counters :
          LET stats == [c \in S |-> 2]
          IN  \A c \in Counters : MapStats(stats)[c] = IF c \in S THEN 2 ELSE 0)

\* with USE_QUEUE on, a statistics read returned the counters of both
\* queues, among them a completed job
C40_Witness ==
  /\ USE_QUEUE
  /\ \E r \in 1..Len(reads) :
        /\ reads[r].kind = "stats" /\ reads[r].pc = "done" /\ reads[r].outcome = "ok"
        /\ \E i \in 1..Len(reads[r].value) :
              /\ reads[r].value[i].stats.completed = 1
              /\ reads[r].value[i].stats.completed =
                    GetJobCounts(reads[r].value[i].queue).completed
====
